---- MODULE Spec2Model ----
(***************************************************************************)
(* Merkle accumulator proofs of circle-free/merkle-research:               *)
(*   - flag multi-proofs (generate / getRoot / getNewRoot / getIndices,    *)
(*     boolean-array and compact bit form),                                *)
(*   - append proofs (generate / appendSingle / appendMulti),              *)
(*   - combined update-and-append proofs.                                  *)
(*                                                                         *)
(* Hashes are symbolic.  A 32-byte word holding the number w is the        *)
(* one-element sequence <<w + 1>>; keccak256(l || r) is the sequence       *)
(* <<0>> \o l \o r.  That is the prefix notation of the hash term, hence   *)
(* injective: two hashes are equal iff they were computed from the same    *)
(* operands in the same positions (collision resistance).                  *)
(*                                                                         *)
(* JavaScript arrays are 0-based.  Arrays indexed by tree node (tree,      *)
(* known, relevant) are functions over 0..len-1; the other arrays are      *)
(* sequences read through At / Bit, which add the offset of one.           *)
(***************************************************************************)
EXTENDS Integers, Sequences, FiniteSets, TLC

VARIABLES
  sortedHash,    \* options.sortedHash of the tree and of every proof
  elements,      \* the element sequence the prover's tree is built from
  root,          \* the verifier's stored root, H(N, internal root)
  elementCount,  \* the verifier's element count N
  op,            \* the operation applied last
  inp,           \* its inputs
  out,           \* its outputs
  steps          \* number of state transitions applied so far

vars == <<sortedHash, elements, root, elementCount, op, inp, out, steps>>

\* ---------------------------------------------------------------- bounds
\* largest element count drawn for the initial tree
MaxN == 6
\* longest list of appended elements
MaxAppend == 3
\* longest sequence of proof-driven transitions
MaxSteps == 3
\* largest initial element count of the transition sequences
MaxSeqN == 2
\* largest element count a transition sequence grows to
MaxSeqLen == 4
\* largest element count a minimum index is taken of
MaxElementCount == 2048
\* longest index list drawn without regard to its order
MaxListLen == 3
\* largest number of hash steps of a proof packed into bit words
MaxHashCount == 257

\* ------------------------------------------------------------ JS helpers
\* Op(v) with v evaluated once: a const or let binding of the program holds a
\* value, not an expression evaluated again at every use
Let(v, Op(_)) == CHOOSE r \in {Op(x) : x \in {v}} : TRUE

Absent == <<>>        \* undefined / null
Failure == <<-1>>     \* the operation threw

Min(S) == CHOOSE x \in S : \A y \in S : x <= y

\* array[i] of a 0-based array held as a sequence; undefined out of range
At(s, i) == IF i + 1 \in DOMAIN s THEN s[i + 1] ELSE Absent
\* truthiness of array[i] of an array of 1 | 0
Bit(s, i) == IF i + 1 \in DOMAIN s THEN s[i + 1] ELSE 0
\* array[i] = v of a 0-based array held as a sequence; a write past the end
\* extends the array
Put(s, i, v) ==
  IF i + 1 \in DOMAIN s THEN [s EXCEPT ![i + 1] = v]
  ELSE [k \in 1..(i + 1) |-> IF k \in DOMAIN s THEN s[k]
                             ELSE IF k = i + 1 THEN v ELSE Absent]
\* array[i] of an array indexed by tree node
Node(t, i) == IF i \in DOMAIN t THEN t[i] ELSE Absent
Flag(t, i) == IF i \in DOMAIN t THEN t[i] ELSE 0
Reverse(s) == [i \in 1..Len(s) |-> s[Len(s) + 1 - i]]

\* BigInt(1) << BigInt(k)
RECURSIVE pow2(_)
pow2(k) == IF k <= 0 THEN 1 ELSE 2 * pow2(k - 1)

\* x & bitCheck for a bitCheck with one bit set: is that bit set in x
bitSet(x, bitCheck) == (x \div bitCheck) % 2 = 1

\* array.slice(from)
Slice(s, from) == [k \in 1..(IF Len(s) > from THEN Len(s) - from ELSE 0) |-> s[k + from]]

\* ------------------------------------------------------------------ hash
to32ByteBuffer(n) == <<n + 1>>
from32ByteBuffer(w) == w[1] - 1

\* a hash that forgets its right operand
hash_nodeLeftOnly(left, right) ==
  IF left \in {Absent, Failure} \/ right \in {Absent, Failure}
  THEN Failure
  ELSE <<0>> \o left

\* keccak256(left || right); undefined operands make Buffer.concat throw
hash_node(left, right) ==
  IF left \in {Absent, Failure} \/ right \in {Absent, Failure}
  THEN Failure
  ELSE <<0>> \o left \o right

\* a < b of two 32-byte values: a fixed total order on the hash terms
lessThan(a, b) ==
  LET n == IF Len(a) < Len(b) THEN Len(a) ELSE Len(b)
      diff == {i \in 1..n : a[i] # b[i]}
  IN  IF diff = {} THEN Len(a) < Len(b) ELSE a[Min(diff)] < b[Min(diff)]

hash_pair(a, b) == IF lessThan(a, b) THEN hash_node(a, b) ELSE hash_node(b, a)

\* options.hashFunction
hashFunction(sorted, left, right) ==
  IF sorted THEN hash_pair(left, right) ELSE hash_node(left, right)

\* leaf image of an element
hashLeaf(element) == hash_node(to32ByteBuffer(0), to32ByteBuffer(element))

\* ---------------------------------------------------------- tree builder
RECURSIVE roundUpToPowerOf2(_, _)
roundUpToPowerOf2(n, p) == IF p >= n THEN p ELSE roundUpToPowerOf2(n, 2 * p)

getBalancedLeafCount(n) == roundUpToPowerOf2(n, 1)

RECURSIVE buildNode(_, _, _, _)
buildNode(sorted, leafs, L, i) ==
  IF i >= L
  THEN At(leafs, i - L)
  ELSE Let(buildNode(sorted, leafs, L, 2 * i), LAMBDA l :
       Let(buildNode(sorted, leafs, L, 2 * i + 1), LAMBDA r :
           IF l = Absent THEN Absent
           ELSE IF r = Absent THEN l
           ELSE hashFunction(sorted, l, r)))

\* the node array of length 2L; slot 0 is unused, slot 1 the internal root
buildTree(sorted, leafs) ==
  LET L == getBalancedLeafCount(Len(leafs))
  IN  [i \in 0..(2 * L - 1) |->
         IF i = 0 THEN Absent ELSE buildNode(sorted, leafs, L, i)]

treeLength(tree) == Cardinality(DOMAIN tree)

leafsOf(elems) == [i \in 1..Len(elems) |-> hashLeaf(elems[i])]
treeOf(sorted, elems) ==
  Let(leafsOf(elems), LAMBDA leafs : buildTree(sorted, leafs))

\* root = H(N, tree[1]); the zero word for the empty tree
computeRoot(n, elementRoot) ==
  IF n = 0 THEN to32ByteBuffer(0) ELSE hash_node(to32ByteBuffer(n), elementRoot)

\* ------------------------------------------------- multi-proof generation
\* first loop of generateBooleans: the ascending check, known and relevant
RECURSIVE markIndices(_, _, _, _)
markIndices(leafCount, indices, i, st) ==
  IF i >= Len(indices) THEN st
  ELSE IF i # 0 /\ At(indices, i - 1) > At(indices, i)
  THEN [st EXCEPT !.err = TRUE]
  ELSE Let([st EXCEPT !.known[leafCount + At(indices, i)] = 1,
                      !.relevant[(leafCount + At(indices, i)) \div 2] = 1],
           LAMBDA marked : markIndices(leafCount, indices, i + 1, marked))

\* second loop of generateBooleans: nodes leafCount - 1 down to 1
\* walkNodes that also pushes the right child when both children are known
RECURSIVE walkNodesDoubled(_, _, _)
walkNodesDoubled(tree, i, st) ==
  IF i <= 0 THEN st
  ELSE
    LET leftChildIndex == 2 * i
        left == Flag(st.known, leftChildIndex)
        right == Flag(st.known, leftChildIndex + 1)
        sibling == Node(tree, leftChildIndex + left)
        pushed == IF left # right \/ left = 1
                  THEN Append(st.decommitments, sibling)
                  ELSE st.decommitments
        stepped ==
          IF Flag(st.relevant, i) = 1
          THEN [st EXCEPT
                  !.flags = Append(@, IF left = right THEN 1 ELSE 0),
                  !.skips = Append(@, IF sibling = Absent THEN 1 ELSE 0),
                  !.orders = Append(@, left),
                  !.relevant[i \div 2] = 1]
          ELSE st
    IN  Let([stepped EXCEPT
               !.decommitments = pushed,
               !.known[i] = IF left = 1 \/ right = 1 THEN 1 ELSE 0],
            LAMBDA walked : walkNodesDoubled(tree, i - 1, walked))

RECURSIVE walkNodes(_, _, _)
walkNodes(tree, i, st) ==
  IF i <= 0 THEN st
  ELSE
    LET leftChildIndex == 2 * i
        left == Flag(st.known, leftChildIndex)
        right == Flag(st.known, leftChildIndex + 1)
        sibling == Node(tree, leftChildIndex + left)
        pushed == IF left # right
                  THEN Append(st.decommitments, sibling)
                  ELSE st.decommitments
        stepped ==
          IF Flag(st.relevant, i) = 1
          THEN [st EXCEPT
                  !.flags = Append(@, IF left = right THEN 1 ELSE 0),
                  !.skips = Append(@, IF sibling = Absent THEN 1 ELSE 0),
                  !.orders = Append(@, left),
                  !.relevant[i \div 2] = 1]
          ELSE st
    IN  Let([stepped EXCEPT
               !.decommitments = pushed,
               !.known[i] = IF left = 1 \/ right = 1 THEN 1 ELSE 0],
            LAMBDA walked : walkNodes(tree, i - 1, walked))

\* generateBooleans that keeps the missing siblings among the decommitments
generateBooleansUnfiltered(tree, elemCount, indices, sorted) ==
  LET leafCount == treeLength(tree) \div 2
      zeros == [i \in DOMAIN tree |-> 0]
      start == [err |-> FALSE, known |-> zeros, relevant |-> zeros,
                decommitments |-> <<>>, flags |-> <<>>, skips |-> <<>>,
                orders |-> <<>>]
  IN  Let(markIndices(leafCount, indices, 0, start), LAMBDA marked :
      Let(IF marked.err THEN marked ELSE walkNodes(tree, leafCount - 1, marked),
          LAMBDA st :
            [err |-> st.err,
             compactProof |-> <<>>,
             elementCount |-> elemCount,
             decommitments |-> st.decommitments,
             flags |-> st.flags,
             skips |-> st.skips,
             orders |-> IF sorted THEN <<>> ELSE st.orders,
             hasOrders |-> ~sorted,
             known |-> st.known,
             relevant |-> st.relevant]))

generateBooleans(tree, elemCount, indices, sorted) ==
  LET leafCount == treeLength(tree) \div 2
      zeros == [i \in DOMAIN tree |-> 0]
      start == [err |-> FALSE, known |-> zeros, relevant |-> zeros,
                decommitments |-> <<>>, flags |-> <<>>, skips |-> <<>>,
                orders |-> <<>>]
  IN  Let(markIndices(leafCount, indices, 0, start), LAMBDA marked :
      Let(IF marked.err THEN marked ELSE walkNodes(tree, leafCount - 1, marked),
          LAMBDA st :
            [err |-> st.err,
             compactProof |-> <<>>,
             elementCount |-> elemCount,
             decommitments |-> SelectSeq(st.decommitments, LAMBDA d : d # Absent),
             flags |-> st.flags,
             skips |-> st.skips,
             orders |-> IF sorted THEN <<>> ELSE st.orders,
             hasOrders |-> ~sorted,
             known |-> st.known,
             relevant |-> st.relevant]))

\* ------------------------------------------------------ compact encoding
\* A BigInt is the sequence of its bits, lowest first, up to its highest set
\* bit; <<>> is zero.  The 32-byte word written from a BigInt is the
\* sequence <<-2>> \o bits, distinct from every hash and every number word.
trimBigInt(bits) ==
  LET set == {i \in 1..Len(bits) : bits[i] = 1}
  IN  IF set = {} THEN <<>>
      ELSE SubSeq(bits, 1, CHOOSE m \in set : \A k \in set : k <= m)

\* the BigInt with bit i set iff array[i] is 1
toBigIntBoolSet(array) == trimBigInt(array)

\* a | b
bigIntOr(a, b) ==
  trimBigInt([i \in 1..(IF Len(a) > Len(b) THEN Len(a) ELSE Len(b)) |->
                IF Bit(a, i - 1) = 1 \/ Bit(b, i - 1) = 1 THEN 1 ELSE 0])

bigIntTo32ByteBuffer(n) == <<-2>> \o n
to32ByteBoolBuffer(array) == bigIntTo32ByteBuffer(toBigIntBoolSet(array))

\* the number a BigInt of at most 30 bits is
RECURSIVE bigIntValue(_)
bigIntValue(bits) ==
  IF Len(bits) = 0 THEN 0 ELSE bits[1] + 2 * bigIntValue(Tail(bits))

\* the integer a 32-byte buffer reads as.  A hash reads as a number unrelated
\* to any bit stream: a fixed function of the hash term.
bufferToBigInt(buffer) ==
  IF Len(buffer) > 0 /\ buffer[1] = -2 THEN bigIntValue(Tail(buffer))
  ELSE IF Len(buffer) = 1 THEN from32ByteBuffer(buffer) ELSE Len(buffer)

\* the stop mask one position too high
shiftedOneHigh(k) == [i \in 1..(k + 2) |-> IF i = k + 2 THEN 1 ELSE 0]

\* BigInt(1) << BigInt(k)
shiftedOne(k) == [i \in 1..(k + 1) |-> IF i = k + 1 THEN 1 ELSE 0]

\* generateBits with the limit one step too high
bitsOfBooleansWide(booleans) ==
  LET stopMask == shiftedOne(Len(booleans.flags))
      proof == IF booleans.hasOrders
               THEN <<to32ByteBoolBuffer(booleans.orders)>> \o booleans.decommitments
               ELSE booleans.decommitments
      flagsAsBits == bigIntTo32ByteBuffer(bigIntOr(toBigIntBoolSet(booleans.flags), stopMask))
      skipsAsBits == bigIntTo32ByteBuffer(bigIntOr(toBigIntBoolSet(booleans.skips), stopMask))
  IN  [err |-> booleans.err \/ Len(booleans.flags) > 256,
       compactProof |-> <<to32ByteBuffer(booleans.elementCount), flagsAsBits,
                          skipsAsBits>> \o proof,
       elementCount |-> booleans.elementCount,
       decommitments |-> <<>>,
       flags |-> <<>>,
       skips |-> <<>>,
       orders |-> <<>>,
       hasOrders |-> FALSE,
       known |-> booleans.known,
       relevant |-> booleans.relevant]

\* generateBits after its call of generateBooleans: the size check and the
\* packing of the bit streams into words
bitsOfBooleans(booleans) ==
  LET stopMask == shiftedOne(Len(booleans.flags))
      proof == IF booleans.hasOrders
               THEN <<to32ByteBoolBuffer(booleans.orders)>> \o booleans.decommitments
               ELSE booleans.decommitments
      flagsAsBits == bigIntTo32ByteBuffer(bigIntOr(toBigIntBoolSet(booleans.flags), stopMask))
      skipsAsBits == bigIntTo32ByteBuffer(bigIntOr(toBigIntBoolSet(booleans.skips), stopMask))
  IN  [err |-> booleans.err \/ Len(booleans.flags) > 255,
       compactProof |-> <<to32ByteBuffer(booleans.elementCount), flagsAsBits,
                          skipsAsBits>> \o proof,
       elementCount |-> booleans.elementCount,
       decommitments |-> <<>>,
       flags |-> <<>>,
       skips |-> <<>>,
       orders |-> <<>>,
       hasOrders |-> FALSE,
       known |-> booleans.known,
       relevant |-> booleans.relevant]

generateBits(tree, elemCount, indices, sorted) ==
  Let(generateBooleans(tree, elemCount, indices, sorted), LAMBDA booleans :
        bitsOfBooleans(booleans))

generate(tree, elemCount, indices, sorted, compact) ==
  IF compact THEN generateBits(tree, elemCount, indices, sorted)
  ELSE generateBooleans(tree, elemCount, indices, sorted)

\* ---------------------------------------------- multi-proof verification
\* one iteration of the loop of getRootBooleans
\* getRootBooleansStep that never wraps writeIndex
getRootBooleansStepUnwrapped(st, i, flags, skips, orders, decommitments, sorted) ==
  LET leafCount == Len(st.hashes) IN
  IF Bit(skips, i) = 1
  THEN [st EXCEPT
          !.hashes = Put(@, st.writeIndex, At(st.hashes, st.readIndex)),
          !.readIndex = (@ + 1) % leafCount,
          !.writeIndex = @ + 1]
  ELSE
    LET flag == Bit(flags, i) = 1
        right == IF flag THEN At(st.hashes, st.readIndex)
                 ELSE At(decommitments, st.decommitmentIndex)
        readIndex1 == IF flag THEN (st.readIndex + 1) % leafCount
                      ELSE st.readIndex % leafCount
        left == At(st.hashes, readIndex1)
        hash == IF Bit(orders, i) = 1
                THEN hashFunction(sorted, left, right)
                ELSE hashFunction(sorted, right, left)
    IN  [hashes |-> Put(st.hashes, st.writeIndex, hash),
         readIndex |-> (readIndex1 + 1) % leafCount,
         writeIndex |-> st.writeIndex + 1,
         decommitmentIndex |-> IF flag THEN st.decommitmentIndex
                               ELSE st.decommitmentIndex + 1]

getRootBooleansStep(st, i, flags, skips, orders, decommitments, sorted) ==
  LET leafCount == Len(st.hashes) IN
  IF Bit(skips, i) = 1
  THEN [st EXCEPT
          !.hashes = Put(@, st.writeIndex, At(st.hashes, st.readIndex)),
          !.readIndex = (@ + 1) % leafCount,
          !.writeIndex = (@ + 1) % leafCount]
  ELSE
    LET flag == Bit(flags, i) = 1
        right == IF flag THEN At(st.hashes, st.readIndex)
                 ELSE At(decommitments, st.decommitmentIndex)
        readIndex1 == IF flag THEN (st.readIndex + 1) % leafCount
                      ELSE st.readIndex % leafCount
        left == At(st.hashes, readIndex1)
        hash == IF Bit(orders, i) = 1
                THEN hashFunction(sorted, left, right)
                ELSE hashFunction(sorted, right, left)
    IN  [hashes |-> Put(st.hashes, st.writeIndex, hash),
         readIndex |-> (readIndex1 + 1) % leafCount,
         writeIndex |-> (st.writeIndex + 1) % leafCount,
         decommitmentIndex |-> IF flag THEN st.decommitmentIndex
                               ELSE st.decommitmentIndex + 1]

RECURSIVE getRootBooleansLoop(_, _, _, _, _, _, _)
getRootBooleansLoop(st, i, flags, skips, orders, decommitments, sorted) ==
  IF i >= Len(flags) THEN st
  ELSE Let(getRootBooleansStep(st, i, flags, skips, orders, decommitments, sorted),
           LAMBDA next : getRootBooleansLoop(next, i + 1, flags, skips, orders,
                                  decommitments, sorted))

\* getRootBooleans with the leafs queued in the order given, not reversed
getRootBooleansUnreversed(leafs, elemCount, flags, skips, orders, decommitments, sorted) ==
  LET leafCount == Len(leafs)
      start == [hashes |-> leafs, readIndex |-> 0, writeIndex |-> 0,
                decommitmentIndex |-> 0]
  IN  Let(getRootBooleansLoop(start, 0, flags, skips, orders, decommitments, sorted),
          LAMBDA st :
            LET rootIndex == (IF st.writeIndex = 0 THEN leafCount
                              ELSE st.writeIndex) - 1
            IN  [root |-> At(st.hashes, rootIndex), elementCount |-> elemCount])

getRootBooleans(leafs, elemCount, flags, skips, orders, decommitments, sorted) ==
  LET leafCount == Len(leafs)
      start == [hashes |-> Reverse(leafs), readIndex |-> 0, writeIndex |-> 0,
                decommitmentIndex |-> 0]
  IN  Let(getRootBooleansLoop(start, 0, flags, skips, orders, decommitments, sorted),
          LAMBDA st :
            LET rootIndex == (IF st.writeIndex = 0 THEN leafCount
                              ELSE st.writeIndex) - 1
            IN  [root |-> At(st.hashes, rootIndex), elementCount |-> elemCount])

\* getRootBitsStep that returns at the first skip bit, whatever the flag
getRootBitsStepEager(st, flags, skips, orders, decommitments, sorted) ==
  LET leafCount == Len(st.hashes)
      flag == bitSet(flags, st.bitCheck)
  IN
  IF bitSet(skips, st.bitCheck)
  THEN IF TRUE
       THEN [st EXCEPT !.done = TRUE]
       ELSE [st EXCEPT
               !.hashes = Put(@, st.writeIndex, At(st.hashes, st.readIndex)),
               !.readIndex = (@ + 1) % leafCount,
               !.writeIndex = (@ + 1) % leafCount,
               !.bitCheck = 2 * @]
  ELSE
    LET right == IF flag THEN At(st.hashes, st.readIndex)
                 ELSE At(decommitments, st.decommitmentIndex)
        readIndex1 == IF flag THEN (st.readIndex + 1) % leafCount
                      ELSE st.readIndex % leafCount
        left == At(st.hashes, readIndex1)
        order == orders.defined /\ bitSet(orders.bits, st.bitCheck)
        hash == IF order THEN hashFunction(sorted, left, right)
                ELSE hashFunction(sorted, right, left)
    IN  IF hash = Failure
        THEN [st EXCEPT !.done = TRUE, !.err = TRUE]
        ELSE [st EXCEPT
                !.hashes = Put(@, st.writeIndex, hash),
                !.readIndex = (readIndex1 + 1) % leafCount,
                !.writeIndex = (@ + 1) % leafCount,
                !.decommitmentIndex = IF flag THEN @ ELSE @ + 1,
                !.bitCheck = 2 * @]

\* one iteration of the while loop of getRootBits; bitCheck has one bit set.
\* The stop bit (flag and skip both set) ends the loop, and so does the throw
\* of a hash of an undefined operand.
getRootBitsStep(st, flags, skips, orders, decommitments, sorted) ==
  LET leafCount == Len(st.hashes)
      flag == bitSet(flags, st.bitCheck)
  IN
  IF bitSet(skips, st.bitCheck)
  THEN IF flag
       THEN [st EXCEPT !.done = TRUE]
       ELSE [st EXCEPT
               !.hashes = Put(@, st.writeIndex, At(st.hashes, st.readIndex)),
               !.readIndex = (@ + 1) % leafCount,
               !.writeIndex = (@ + 1) % leafCount,
               !.bitCheck = 2 * @]
  ELSE
    LET right == IF flag THEN At(st.hashes, st.readIndex)
                 ELSE At(decommitments, st.decommitmentIndex)
        readIndex1 == IF flag THEN (st.readIndex + 1) % leafCount
                      ELSE st.readIndex % leafCount
        left == At(st.hashes, readIndex1)
        order == orders.defined /\ bitSet(orders.bits, st.bitCheck)
        hash == IF order THEN hashFunction(sorted, left, right)
                ELSE hashFunction(sorted, right, left)
    IN  IF hash = Failure
        THEN [st EXCEPT !.done = TRUE, !.err = TRUE]
        ELSE [st EXCEPT
                !.hashes = Put(@, st.writeIndex, hash),
                !.readIndex = (readIndex1 + 1) % leafCount,
                !.writeIndex = (@ + 1) % leafCount,
                !.decommitmentIndex = IF flag THEN @ ELSE @ + 1,
                !.bitCheck = 2 * @]

RECURSIVE getRootBitsLoop(_, _, _, _, _, _)
getRootBitsLoop(st, flags, skips, orders, decommitments, sorted) ==
  IF st.done THEN st
  ELSE Let(getRootBitsStep(st, flags, skips, orders, decommitments, sorted),
           LAMBDA next : getRootBitsLoop(next, flags, skips, orders,
                                         decommitments, sorted))

\* the orders word of a compact proof: undefined for the sorted hash
ordersOfCompactProof(compactProof, sorted) ==
  IF sorted THEN [defined |-> FALSE, bits |-> 0]
  ELSE [defined |-> TRUE, bits |-> bufferToBigInt(At(compactProof, 3))]

getRootBits(leafs, compactProof, sorted) ==
  LET elemCount == from32ByteBuffer(At(compactProof, 0))
      flags == bufferToBigInt(At(compactProof, 1))
      skips == bufferToBigInt(At(compactProof, 2))
      orders == ordersOfCompactProof(compactProof, sorted)
      decommitments == Slice(compactProof, IF sorted THEN 3 ELSE 4)
      leafCount == Len(leafs)
      start == [hashes |-> Reverse(leafs), readIndex |-> 0, writeIndex |-> 0,
                decommitmentIndex |-> 0, bitCheck |-> 1, done |-> FALSE,
                err |-> FALSE]
  IN  Let(getRootBitsLoop(start, flags, skips, orders, decommitments, sorted),
          LAMBDA st :
            LET rootIndex == (IF st.writeIndex = 0 THEN leafCount
                              ELSE st.writeIndex) - 1
            IN  [err |-> st.err,
                 root |-> IF st.err THEN Absent ELSE At(st.hashes, rootIndex),
                 elementCount |-> elemCount])

getRoot(leafs, compactProof, elemCount, flags, skips, orders, decommitments, sorted) ==
  IF Len(compactProof) > 0
  THEN getRootBits(leafs, compactProof, sorted)
  ELSE [err |-> FALSE] @@
       getRootBooleans(leafs, elemCount, flags, skips, orders, decommitments,
                       sorted)

\* --------------------------------------------------- multi-proof update
\* one iteration of the loop of getNewRootBooleans
\* getNewRootBooleansStep that never moves on to the next decommitment
getNewRootBooleansStepHeld(st, i, flags, skips, orders, decommitments, sorted) ==
  LET leafCount == Len(st.hashes) IN
  IF Bit(skips, i) = 1
  THEN [st EXCEPT
          !.hashes = Put(@, st.writeIndex, At(st.hashes, st.readIndex)),
          !.updateHashes = Put(@, st.writeIndex, At(st.updateHashes, st.readIndex)),
          !.readIndex = (@ + 1) % leafCount,
          !.writeIndex = (@ + 1) % leafCount]
  ELSE
    LET flag == Bit(flags, i) = 1
        right == IF flag THEN At(st.hashes, st.readIndex)
                 ELSE At(decommitments, st.decommitmentIndex)
        newRight == IF flag THEN At(st.updateHashes, st.readIndex)
                    ELSE At(decommitments, st.decommitmentIndex)
        readIndex1 == IF flag THEN (st.readIndex + 1) % leafCount
                      ELSE st.readIndex % leafCount
        left == At(st.hashes, readIndex1)
        newLeft == At(st.updateHashes, readIndex1)
        order == Bit(orders, i) = 1
        hash == IF order THEN hashFunction(sorted, left, right)
                ELSE hashFunction(sorted, right, left)
        newHash == IF order THEN hashFunction(sorted, newLeft, newRight)
                   ELSE hashFunction(sorted, newRight, newLeft)
    IN  [hashes |-> Put(st.hashes, st.writeIndex, hash),
         updateHashes |-> Put(st.updateHashes, st.writeIndex, newHash),
         readIndex |-> (readIndex1 + 1) % leafCount,
         writeIndex |-> (st.writeIndex + 1) % leafCount,
         decommitmentIndex |-> st.decommitmentIndex]

getNewRootBooleansStep(st, i, flags, skips, orders, decommitments, sorted) ==
  LET leafCount == Len(st.hashes) IN
  IF Bit(skips, i) = 1
  THEN [st EXCEPT
          !.hashes = Put(@, st.writeIndex, At(st.hashes, st.readIndex)),
          !.updateHashes = Put(@, st.writeIndex, At(st.updateHashes, st.readIndex)),
          !.readIndex = (@ + 1) % leafCount,
          !.writeIndex = (@ + 1) % leafCount]
  ELSE
    LET flag == Bit(flags, i) = 1
        right == IF flag THEN At(st.hashes, st.readIndex)
                 ELSE At(decommitments, st.decommitmentIndex)
        newRight == IF flag THEN At(st.updateHashes, st.readIndex)
                    ELSE At(decommitments, st.decommitmentIndex)
        readIndex1 == IF flag THEN (st.readIndex + 1) % leafCount
                      ELSE st.readIndex % leafCount
        left == At(st.hashes, readIndex1)
        newLeft == At(st.updateHashes, readIndex1)
        order == Bit(orders, i) = 1
        hash == IF order THEN hashFunction(sorted, left, right)
                ELSE hashFunction(sorted, right, left)
        newHash == IF order THEN hashFunction(sorted, newLeft, newRight)
                   ELSE hashFunction(sorted, newRight, newLeft)
    IN  [hashes |-> Put(st.hashes, st.writeIndex, hash),
         updateHashes |-> Put(st.updateHashes, st.writeIndex, newHash),
         readIndex |-> (readIndex1 + 1) % leafCount,
         writeIndex |-> (st.writeIndex + 1) % leafCount,
         decommitmentIndex |-> IF flag THEN st.decommitmentIndex
                               ELSE st.decommitmentIndex + 1]

RECURSIVE getNewRootBooleansLoop(_, _, _, _, _, _, _)
getNewRootBooleansLoop(st, i, flags, skips, orders, decommitments, sorted) ==
  IF i >= Len(flags) THEN st
  ELSE Let(getNewRootBooleansStep(st, i, flags, skips, orders, decommitments, sorted),
           LAMBDA next : getNewRootBooleansLoop(next, i + 1, flags, skips, orders,
                                  decommitments, sorted))

\* getNewRootBooleans reading the new root from the queue of old hashes
getNewRootBooleansStale(leafs, updateLeafs, elemCount, flags, skips, orders, decommitments, sorted) ==
  LET leafCount == Len(leafs)
      start == [hashes |-> Reverse(leafs), updateHashes |-> Reverse(updateLeafs),
                readIndex |-> 0, writeIndex |-> 0, decommitmentIndex |-> 0]
  IN  Let(getNewRootBooleansLoop(start, 0, flags, skips, orders,
                                 decommitments, sorted),
          LAMBDA st :
            LET rootIndex == (IF st.writeIndex = 0 THEN leafCount
                              ELSE st.writeIndex) - 1
            IN  [root |-> At(st.hashes, rootIndex),
                 newRoot |-> At(st.hashes, rootIndex),
                 elementCount |-> elemCount])

getNewRootBooleans(leafs, updateLeafs, elemCount, flags, skips, orders, decommitments, sorted) ==
  LET leafCount == Len(leafs)
      start == [hashes |-> Reverse(leafs), updateHashes |-> Reverse(updateLeafs),
                readIndex |-> 0, writeIndex |-> 0, decommitmentIndex |-> 0]
  IN  Let(getNewRootBooleansLoop(start, 0, flags, skips, orders,
                                 decommitments, sorted),
          LAMBDA st :
            LET rootIndex == (IF st.writeIndex = 0 THEN leafCount
                              ELSE st.writeIndex) - 1
            IN  [root |-> At(st.hashes, rootIndex),
                 newRoot |-> At(st.updateHashes, rootIndex),
                 elementCount |-> elemCount])

\* getNewRootBitsStep whose old left operand comes from the updated queue
getNewRootBitsStepMixed(st, flags, skips, orders, decommitments, sorted) ==
  LET leafCount == Len(st.hashes)
      flag == bitSet(flags, st.bitCheck)
  IN
  IF bitSet(skips, st.bitCheck)
  THEN IF flag
       THEN [st EXCEPT !.done = TRUE]
       ELSE [st EXCEPT
               !.hashes = Put(@, st.writeIndex, At(st.hashes, st.readIndex)),
               !.updateHashes = Put(@, st.writeIndex,
                                    At(st.updateHashes, st.readIndex)),
               !.readIndex = (@ + 1) % leafCount,
               !.writeIndex = (@ + 1) % leafCount,
               !.bitCheck = 2 * @]
  ELSE
    LET right == IF flag THEN At(st.hashes, st.readIndex)
                 ELSE At(decommitments, st.decommitmentIndex)
        newRight == IF flag THEN At(st.updateHashes, st.readIndex)
                    ELSE At(decommitments, st.decommitmentIndex)
        readIndex1 == IF flag THEN (st.readIndex + 1) % leafCount
                      ELSE st.readIndex % leafCount
        left == At(st.updateHashes, readIndex1)
        newLeft == At(st.updateHashes, readIndex1)
        order == orders.defined /\ bitSet(orders.bits, st.bitCheck)
        hash == IF order THEN hashFunction(sorted, left, right)
                ELSE hashFunction(sorted, right, left)
        newHash == IF order THEN hashFunction(sorted, newLeft, newRight)
                   ELSE hashFunction(sorted, newRight, newLeft)
    IN  IF hash = Failure \/ newHash = Failure
        THEN [st EXCEPT !.done = TRUE, !.err = TRUE]
        ELSE [st EXCEPT
                !.hashes = Put(@, st.writeIndex, hash),
                !.updateHashes = Put(@, st.writeIndex, newHash),
                !.readIndex = (readIndex1 + 1) % leafCount,
                !.writeIndex = (@ + 1) % leafCount,
                !.decommitmentIndex = IF flag THEN @ ELSE @ + 1,
                !.bitCheck = 2 * @]

\* one iteration of the while loop of getNewRootBits
getNewRootBitsStep(st, flags, skips, orders, decommitments, sorted) ==
  LET leafCount == Len(st.hashes)
      flag == bitSet(flags, st.bitCheck)
  IN
  IF bitSet(skips, st.bitCheck)
  THEN IF flag
       THEN [st EXCEPT !.done = TRUE]
       ELSE [st EXCEPT
               !.hashes = Put(@, st.writeIndex, At(st.hashes, st.readIndex)),
               !.updateHashes = Put(@, st.writeIndex,
                                    At(st.updateHashes, st.readIndex)),
               !.readIndex = (@ + 1) % leafCount,
               !.writeIndex = (@ + 1) % leafCount,
               !.bitCheck = 2 * @]
  ELSE
    LET right == IF flag THEN At(st.hashes, st.readIndex)
                 ELSE At(decommitments, st.decommitmentIndex)
        newRight == IF flag THEN At(st.updateHashes, st.readIndex)
                    ELSE At(decommitments, st.decommitmentIndex)
        readIndex1 == IF flag THEN (st.readIndex + 1) % leafCount
                      ELSE st.readIndex % leafCount
        left == At(st.hashes, readIndex1)
        newLeft == At(st.updateHashes, readIndex1)
        order == orders.defined /\ bitSet(orders.bits, st.bitCheck)
        hash == IF order THEN hashFunction(sorted, left, right)
                ELSE hashFunction(sorted, right, left)
        newHash == IF order THEN hashFunction(sorted, newLeft, newRight)
                   ELSE hashFunction(sorted, newRight, newLeft)
    IN  IF hash = Failure \/ newHash = Failure
        THEN [st EXCEPT !.done = TRUE, !.err = TRUE]
        ELSE [st EXCEPT
                !.hashes = Put(@, st.writeIndex, hash),
                !.updateHashes = Put(@, st.writeIndex, newHash),
                !.readIndex = (readIndex1 + 1) % leafCount,
                !.writeIndex = (@ + 1) % leafCount,
                !.decommitmentIndex = IF flag THEN @ ELSE @ + 1,
                !.bitCheck = 2 * @]

RECURSIVE getNewRootBitsLoop(_, _, _, _, _, _)
getNewRootBitsLoop(st, flags, skips, orders, decommitments, sorted) ==
  IF st.done THEN st
  ELSE Let(getNewRootBitsStep(st, flags, skips, orders, decommitments, sorted),
           LAMBDA next : getNewRootBitsLoop(next, flags, skips, orders,
                                            decommitments, sorted))

getNewRootBits(leafs, updateLeafs, compactProof, sorted) ==
  LET elemCount == from32ByteBuffer(At(compactProof, 0))
      flags == bufferToBigInt(At(compactProof, 1))
      skips == bufferToBigInt(At(compactProof, 2))
      orders == ordersOfCompactProof(compactProof, sorted)
      decommitments == Slice(compactProof, IF sorted THEN 3 ELSE 4)
      leafCount == Len(leafs)
      start == [hashes |-> Reverse(leafs), updateHashes |-> Reverse(updateLeafs),
                readIndex |-> 0, writeIndex |-> 0, decommitmentIndex |-> 0,
                bitCheck |-> 1, done |-> FALSE, err |-> FALSE]
  IN  Let(getNewRootBitsLoop(start, flags, skips, orders, decommitments, sorted),
          LAMBDA st :
            LET rootIndex == (IF st.writeIndex = 0 THEN leafCount
                              ELSE st.writeIndex) - 1
            IN  [err |-> st.err,
                 root |-> IF st.err THEN Absent ELSE At(st.hashes, rootIndex),
                 newRoot |-> IF st.err THEN Absent
                             ELSE At(st.updateHashes, rootIndex),
                 elementCount |-> elemCount])

getNewRoot(leafs, updatedLeafs, compactProof, elemCount, flags, skips, orders, decommitments, sorted) ==
  IF Len(compactProof) > 0
  THEN getNewRootBits(leafs, updatedLeafs, compactProof, sorted)
  ELSE [err |-> FALSE] @@
       getNewRootBooleans(leafs, updatedLeafs, elemCount, flags, skips, orders,
                          decommitments, sorted)

\* -------------------------------------------------------- index inference
\* indices[leafIndex] |= 1 << bitsPushed[leafIndex]
pushBit(st) ==
  LET bitCheck == pow2(At(st.bitsPushed, st.leafIndex) % 32)
      value == At(st.indices, st.leafIndex)
  IN  [st EXCEPT !.indices = Put(@, st.leafIndex,
                     IF bitSet(value, bitCheck) THEN value ELSE value + bitCheck)]

\* the inner loop of a skipped step
RECURSIVE skipWalk(_)
skipWalk(st) ==
  LET counted == [st EXCEPT
                    !.bitsPushed = Put(@, st.leafIndex, At(@, st.leafIndex) + 1)]
  IN  IF st.leafIndex = 0
      THEN [counted EXCEPT !.leafIndex = Len(st.indices) - 1]
      ELSE IF ~At(st.groupedWithNext, st.leafIndex)
      THEN [counted EXCEPT !.leafIndex = @ - 1]
      ELSE Let([counted EXCEPT !.leafIndex = @ - 1], LAMBDA next : skipWalk(next))

\* the inner loop of a step with flag 1: the group of the right operand
RECURSIVE flagWalk(_, _)
flagWalk(st, order) ==
  LET pushed == IF order THEN pushBit(st) ELSE st
      counted == [pushed EXCEPT
                    !.bitsPushed = Put(@, st.leafIndex, At(@, st.leafIndex) + 1)]
      grouped == [counted EXCEPT
                    !.groupedWithNext = Put(@, st.leafIndex, TRUE),
                    !.leafIndex = @ - 1]
  IN  IF st.leafIndex = 0
      THEN [counted EXCEPT !.leafIndex = Len(st.indices) - 1]
      ELSE IF ~At(st.groupedWithNext, st.leafIndex)
      THEN grouped
      ELSE Let(grouped, LAMBDA next : flagWalk(next, order))

\* the last inner loop of a step: the group of the left operand
RECURSIVE leftWalk(_, _)
leftWalk(st, order) ==
  LET pushed == IF ~order THEN pushBit(st) ELSE st
      counted == [pushed EXCEPT
                    !.bitsPushed = Put(@, st.leafIndex, At(@, st.leafIndex) + 1)]
  IN  IF st.leafIndex = 0
      THEN [counted EXCEPT !.leafIndex = Len(st.indices) - 1]
      ELSE IF ~At(st.groupedWithNext, st.leafIndex)
      THEN [counted EXCEPT !.leafIndex = @ - 1]
      ELSE Let([counted EXCEPT !.leafIndex = @ - 1],
               LAMBDA next : leftWalk(next, order))

\* one step of index inference, given the step's skip, flag and order
getIndicesStep(st, skip, flag, order) ==
  IF skip THEN skipWalk(st)
  ELSE Let(IF flag THEN flagWalk(st, order) ELSE st,
           LAMBDA next : leftWalk(next, order))

getIndicesStart(leafCount) ==
  [indices |-> [j \in 1..leafCount |-> 0],
   groupedWithNext |-> [j \in 1..leafCount |-> FALSE],
   bitsPushed |-> [j \in 1..leafCount |-> 0],
   leafIndex |-> leafCount - 1]

RECURSIVE getIndicesWithBooleansLoop(_, _, _, _, _)
getIndicesWithBooleansLoop(st, i, flags, skips, orders) ==
  IF i >= Len(flags) THEN st
  ELSE Let(getIndicesStep(st, Bit(skips, i) = 1, Bit(flags, i) = 1,
                          Bit(orders, i) = 1),
           LAMBDA next : getIndicesWithBooleansLoop(next, i + 1, flags, skips,
                                                    orders))

getIndicesWithBooleans(leafCount, flags, skips, orders) ==
  IF Len(orders) = 0
  THEN [err |-> TRUE, diverges |-> FALSE, indices |-> <<>>]
  ELSE [err |-> FALSE, diverges |-> FALSE,
        indices |-> getIndicesWithBooleansLoop(getIndicesStart(leafCount), 0,
                                               flags, skips, orders).indices]

\* the while loop of getIndicesWithBits, whose inner loops are those of
\* getIndicesWithBooleans.  The stop bit ends it; a proof without one has no
\* set bit left past the highest of flags and skips, and the loop never ends.
RECURSIVE getIndicesWithBitsLoop(_, _, _, _, _)
getIndicesWithBitsLoop(st, bitCheck, flags, skips, orders) ==
  LET flag == bitSet(flags, bitCheck)
      skip == bitSet(skips, bitCheck)
  IN  IF skip /\ flag
      THEN [err |-> FALSE, diverges |-> FALSE, indices |-> st.indices,
            bitCheck |-> bitCheck]
      ELSE IF bitCheck > flags /\ bitCheck > skips
      THEN [err |-> FALSE, diverges |-> TRUE, indices |-> <<>>,
            bitCheck |-> bitCheck]
      ELSE Let(getIndicesStep(st, skip, flag, bitSet(orders, bitCheck)),
               LAMBDA next : getIndicesWithBitsLoop(next, 2 * bitCheck, flags,
                                                    skips, orders))

\* bufferToBigInt throws on an undefined word
getIndicesWithBits(leafCount, compactProof) ==
  IF At(compactProof, 1) = Absent \/ At(compactProof, 2) = Absent
       \/ At(compactProof, 3) = Absent
  THEN [err |-> TRUE, diverges |-> FALSE, indices |-> <<>>, bitCheck |-> 1]
  ELSE getIndicesWithBitsLoop(getIndicesStart(leafCount), 1,
         bufferToBigInt(At(compactProof, 1)),
         bufferToBigInt(At(compactProof, 2)),
         bufferToBigInt(At(compactProof, 3)))

getIndices(leafCount, compactProof, flags, skips, orders) ==
  IF Len(compactProof) > 0
  THEN getIndicesWithBits(leafCount, compactProof)
  ELSE getIndicesWithBooleans(leafCount, flags, skips, orders)

\* ---------------------------------------------------------- append proofs
\* number of set bits of n
RECURSIVE bitCount32(_)
bitCount32(n) == IF n = 0 THEN 0 ELSE (n % 2) + bitCount32(n \div 2)

\* the loop of generate without the case of the left subtree root, i = 2
RECURSIVE appendDecommitmentsOdd(_, _, _)
appendDecommitmentsOdd(tree, i, decommitments) ==
  IF i <= 1 THEN decommitments
  ELSE Let(IF i % 2 = 1
           THEN <<Node(tree, i - 1)>> \o decommitments
           ELSE decommitments,
           LAMBDA next : appendDecommitmentsOdd(tree, i \div 2, next))

\* the loop of generate of append-proofs.ts: i = leafCount + elementCount,
\* halved while i > 1; unshift puts the later (higher) nodes first
RECURSIVE appendDecommitments(_, _, _)
appendDecommitments(tree, i, decommitments) ==
  IF i <= 1 THEN decommitments
  ELSE Let(IF i % 2 = 1 \/ i = 2
           THEN <<Node(tree, i - 1)>> \o decommitments
           ELSE decommitments,
           LAMBDA next : appendDecommitments(tree, i \div 2, next))

AppendProofs_generate(tree, elemCount, compact) ==
  LET leafCount == treeLength(tree) \div 2
  IN  Let(appendDecommitments(tree, leafCount + elemCount, <<>>),
          LAMBDA decommitments :
            IF compact
            THEN [elementCount |-> 0,
                  compactProof |-> <<to32ByteBuffer(elemCount)>> \o decommitments,
                  decommitments |-> <<>>]
            ELSE [elementCount |-> elemCount,
                  decommitments |-> decommitments,
                  compactProof |-> <<>>])

\* the while loop of getRoot with the operands of the hash exchanged
RECURSIVE getRootLoopSwapped(_, _, _, _)
getRootLoopSwapped(index, hash, decommitments, sorted) ==
  IF index <= 0 THEN hash
  ELSE Let(hashFunction(sorted, hash, At(decommitments, index - 1)),
           LAMBDA next : getRootLoopSwapped(index - 1, next, decommitments, sorted))

\* the while loop of getRoot of append-proofs.ts
RECURSIVE getRootLoop(_, _, _, _)
getRootLoop(index, hash, decommitments, sorted) ==
  IF index <= 0 THEN hash
  ELSE Let(hashFunction(sorted, At(decommitments, index - 1), hash),
           LAMBDA next : getRootLoop(index - 1, next, decommitments, sorted))

\* the root the decommitments of an append proof fold to, right to left
AppendProofs_getRoot(elemCount, decommitments, sorted) ==
  LET index == bitCount32(elemCount)
  IN  getRootLoop(index - 1, At(decommitments, index - 1), decommitments, sorted)

RECURSIVE appendSingleLoop(_, _, _, _)
appendSingleLoop(index, appendHash, decommitments, sorted) ==
  IF index <= 0 THEN appendHash
  ELSE Let(hashFunction(sorted, At(decommitments, index - 1), appendHash),
           LAMBDA next : appendSingleLoop(index - 1, next, decommitments, sorted))

\* appendSingle that leaves out the lowest decommitment
appendSingleShort(appendLeaf, elemCount, decommitments, sorted) ==
  appendSingleLoop(bitCount32(elemCount) - 1, appendLeaf, decommitments, sorted)

appendSingle(appendLeaf, elemCount, decommitments, sorted) ==
  appendSingleLoop(bitCount32(elemCount), appendLeaf, decommitments, sorted)

\* one iteration of the while loop of appendMulti
\* appendMultiStep that drops the unpaired last hash of a level
appendMultiStepDropped(st, decommitments, sorted) ==
  LET merged ==
        IF st.writeIndex = 0 /\ st.index % 2 = 1
        THEN [st EXCEPT
                !.appendHashes = Put(@, st.writeIndex,
                   hashFunction(sorted, At(decommitments, st.decommitmentIndex),
                                At(st.appendHashes, st.readIndex))),
                !.writeIndex = @ + 1,
                !.readIndex = @ + 1,
                !.decommitmentIndex = @ - 1,
                !.index = @ + 1]
        ELSE IF st.index < st.upperBound
        THEN [st EXCEPT
                !.appendHashes = Put(@, st.writeIndex,
                   hashFunction(sorted, At(st.appendHashes, st.readIndex),
                                At(st.appendHashes, st.readIndex + 1))),
                !.writeIndex = @ + 1,
                !.readIndex = @ + 2,
                !.index = @ + 2]
        ELSE st
  IN  Let(merged, LAMBDA m :
        IF m.index >= m.upperBound
        THEN [m EXCEPT
                !.readIndex = 0,
                !.writeIndex = 0,
                !.upperBound = @ \div 2,
                !.offset = @ \div 2,
                !.index = m.offset \div 2]
        ELSE m)

appendMultiStep(st, decommitments, sorted) ==
  LET merged ==
        IF st.writeIndex = 0 /\ st.index % 2 = 1
        THEN [st EXCEPT
                !.appendHashes = Put(@, st.writeIndex,
                   hashFunction(sorted, At(decommitments, st.decommitmentIndex),
                                At(st.appendHashes, st.readIndex))),
                !.writeIndex = @ + 1,
                !.readIndex = @ + 1,
                !.decommitmentIndex = @ - 1,
                !.index = @ + 1]
        ELSE IF st.index < st.upperBound
        THEN [st EXCEPT
                !.appendHashes = Put(@, st.writeIndex,
                   hashFunction(sorted, At(st.appendHashes, st.readIndex),
                                At(st.appendHashes, st.readIndex + 1))),
                !.writeIndex = @ + 1,
                !.readIndex = @ + 2,
                !.index = @ + 2]
        ELSE st
  IN  Let(merged, LAMBDA m :
        IF m.index >= m.upperBound
        THEN [m EXCEPT
                !.appendHashes =
                   IF m.index = m.upperBound
                   THEN Put(@, m.writeIndex, At(@, m.readIndex))
                   ELSE @,
                !.readIndex = 0,
                !.writeIndex = 0,
                !.upperBound = @ \div 2,
                !.offset = @ \div 2,
                !.index = m.offset \div 2]
        ELSE m)

RECURSIVE appendMultiLoop(_, _, _)
appendMultiLoop(st, decommitments, sorted) ==
  IF st.upperBound <= 0 THEN st
  ELSE Let(appendMultiStep(st, decommitments, sorted),
           LAMBDA next : appendMultiLoop(next, decommitments, sorted))

\* appendMulti with the upper bound one past the last new leaf
appendMultiWide(appendLeafs, elemCount, decommitments, sorted) ==
  LET start == [decommitmentIndex |-> bitCount32(elemCount) - 1,
                appendHashes |-> appendLeafs,
                upperBound |-> elemCount + Len(appendLeafs),
                writeIndex |-> 0,
                readIndex |-> 0,
                offset |-> elemCount,
                index |-> elemCount]
  IN  At(appendMultiLoop(start, decommitments, sorted).appendHashes, 0)

appendMulti(appendLeafs, elemCount, decommitments, sorted) ==
  LET start == [decommitmentIndex |-> bitCount32(elemCount) - 1,
                appendHashes |-> appendLeafs,
                upperBound |-> elemCount + Len(appendLeafs) - 1,
                writeIndex |-> 0,
                readIndex |-> 0,
                offset |-> elemCount,
                index |-> elemCount]
  IN  At(appendMultiLoop(start, decommitments, sorted).appendHashes, 0)

\* getNewRootSingle of append-proofs.ts: the old root and the new root are
\* folded side by side from the decommitments, right to left
RECURSIVE getNewRootSingleLoop(_, _, _, _, _)
getNewRootSingleLoop(index, hash, appendHash, decommitments, sorted) ==
  IF index <= 0 THEN [root |-> hash, newRoot |-> appendHash]
  ELSE Let(hashFunction(sorted, At(decommitments, index - 1), appendHash),
           LAMBDA nextAppendHash :
             getNewRootSingleLoop(index - 1,
               hashFunction(sorted, At(decommitments, index - 1), hash),
               nextAppendHash, decommitments, sorted))

getNewRootSingle(appendLeaf, elemCount, decommitments, sorted) ==
  LET index == bitCount32(elemCount) - 1
      hash == At(decommitments, index)
      appendHash == hashFunction(sorted, At(decommitments, index), appendLeaf)
  IN  Let(getNewRootSingleLoop(index, hash, appendHash, decommitments, sorted),
          LAMBDA res : [root |-> res.root, newRoot |-> res.newRoot,
                        elementCount |-> elemCount])

\* getNewRootMultiStep that ends the loop at the first level it closes
getNewRootMultiStepCut(st, decommitments, sorted) ==
  LET merged ==
        IF st.writeIndex = 0 /\ st.index % 2 = 1
        THEN [st EXCEPT
                !.appendHashes = Put(@, st.writeIndex,
                   hashFunction(sorted, At(decommitments, st.decommitmentIndex),
                                At(st.appendHashes, st.readIndex))),
                !.writeIndex = @ + 1,
                !.readIndex = @ + 1,
                !.decommitmentIndex = @ - 1,
                !.hash = IF st.decommitmentIndex - 1 >= 0
                         THEN hashFunction(sorted,
                                At(decommitments, st.decommitmentIndex - 1), @)
                         ELSE @,
                !.index = @ + 1]
        ELSE IF st.index < st.upperBound
        THEN [st EXCEPT
                !.appendHashes = Put(@, st.writeIndex,
                   hashFunction(sorted, At(st.appendHashes, st.readIndex),
                                At(st.appendHashes, st.readIndex + 1))),
                !.writeIndex = @ + 1,
                !.readIndex = @ + 2,
                !.index = @ + 2]
        ELSE st
  IN  Let(merged, LAMBDA m :
        IF m.index >= m.upperBound
        THEN [m EXCEPT
                !.appendHashes =
                   IF m.index = m.upperBound
                   THEN Put(@, m.writeIndex, At(@, m.readIndex))
                   ELSE @,
                !.readIndex = 0,
                !.writeIndex = 0,
                !.upperBound = 0,
                !.offset = @ \div 2,
                !.index = m.offset \div 2]
        ELSE m)

\* one iteration of the while loop of getNewRootMulti: that of appendMulti,
\* with the old root folded in whenever a decommitment is merged
getNewRootMultiStep(st, decommitments, sorted) ==
  LET merged ==
        IF st.writeIndex = 0 /\ st.index % 2 = 1
        THEN [st EXCEPT
                !.appendHashes = Put(@, st.writeIndex,
                   hashFunction(sorted, At(decommitments, st.decommitmentIndex),
                                At(st.appendHashes, st.readIndex))),
                !.writeIndex = @ + 1,
                !.readIndex = @ + 1,
                !.decommitmentIndex = @ - 1,
                !.hash = IF st.decommitmentIndex - 1 >= 0
                         THEN hashFunction(sorted,
                                At(decommitments, st.decommitmentIndex - 1), @)
                         ELSE @,
                !.index = @ + 1]
        ELSE IF st.index < st.upperBound
        THEN [st EXCEPT
                !.appendHashes = Put(@, st.writeIndex,
                   hashFunction(sorted, At(st.appendHashes, st.readIndex),
                                At(st.appendHashes, st.readIndex + 1))),
                !.writeIndex = @ + 1,
                !.readIndex = @ + 2,
                !.index = @ + 2]
        ELSE st
  IN  Let(merged, LAMBDA m :
        IF m.index >= m.upperBound
        THEN [m EXCEPT
                !.appendHashes =
                   IF m.index = m.upperBound
                   THEN Put(@, m.writeIndex, At(@, m.readIndex))
                   ELSE @,
                !.readIndex = 0,
                !.writeIndex = 0,
                !.upperBound = @ \div 2,
                !.offset = @ \div 2,
                !.index = m.offset \div 2]
        ELSE m)

RECURSIVE getNewRootMultiLoop(_, _, _)
getNewRootMultiLoop(st, decommitments, sorted) ==
  IF st.upperBound <= 0 THEN st
  ELSE Let(getNewRootMultiStep(st, decommitments, sorted),
           LAMBDA next : getNewRootMultiLoop(next, decommitments, sorted))

\* the local variables of getNewRootMulti before its loop
getNewRootMultiStart(appendLeafs, elemCount, decommitments) ==
  [decommitmentIndex |-> bitCount32(elemCount) - 1,
   hash |-> At(decommitments, bitCount32(elemCount) - 1),
   appendHashes |-> appendLeafs,
   upperBound |-> elemCount + Len(appendLeafs) - 1,
   writeIndex |-> 0,
   readIndex |-> 0,
   offset |-> elemCount,
   index |-> elemCount]

getNewRootMulti(appendLeafs, elemCount, decommitments, sorted) ==
  Let(getNewRootMultiLoop(getNewRootMultiStart(appendLeafs, elemCount, decommitments),
                          decommitments, sorted),
      LAMBDA st : [root |-> st.hash, newRoot |-> At(st.appendHashes, 0),
                   elementCount |-> elemCount])

\* getNewRoot that takes the old root to be the last decommitment
AppendProofs_getNewRootUnfolded(appendLeafs, single, compactProof, elemCount, decommitments, sorted) ==
  LET count == IF Len(compactProof) > 0 THEN from32ByteBuffer(compactProof[1])
               ELSE elemCount
      decs == IF Len(compactProof) > 0 THEN Slice(compactProof, 1)
              ELSE decommitments
  IN  Let(IF single THEN getNewRootSingle(appendLeafs[1], count, decs, sorted)
          ELSE getNewRootMulti(appendLeafs, count, decs, sorted),
          LAMBDA res : [res EXCEPT !.root = At(decs, bitCount32(count) - 1)])

\* getNewRoot of append-proofs.ts: a single Buffer goes to getNewRootSingle,
\* a list to getNewRootMulti; both read a compact proof the same way
AppendProofs_getNewRoot(appendLeafs, single, compactProof, elemCount, decommitments, sorted) ==
  LET count == IF Len(compactProof) > 0 THEN from32ByteBuffer(compactProof[1])
               ELSE elemCount
      decs == IF Len(compactProof) > 0 THEN Slice(compactProof, 1)
              ELSE decommitments
  IN  IF single THEN getNewRootSingle(appendLeafs[1], count, decs, sorted)
      ELSE getNewRootMulti(appendLeafs, count, decs, sorted)

\* a minimum index of 0, whatever the element count
getMinimumIndexZero(elemCount, shifts) == 0

\* --------------------------------------------------------- combined proofs
\* the element count shifted right until its lowest bit is set, that bit
\* cleared, and the result shifted back; undefined (-1) for no elements
RECURSIVE getMinimumIndex(_, _)
getMinimumIndex(elemCount, shifts) ==
  IF shifts >= 32 THEN -1
  ELSE IF elemCount % 2 = 1 THEN (elemCount - 1) * pow2(shifts)
  ELSE getMinimumIndex(elemCount \div 2, shifts + 1)

\* the minimum index with only the lowest bit cleared
minimumCombinedProofIndexEven(elemCount) == elemCount - (elemCount % 2)

minimumCombinedProofIndex(elemCount) == getMinimumIndex(elemCount, 0)

\* a combined proof is generated only for an index list whose last index is
\* not below the minimum index
\* every index list is allowed a combined proof
combinedProofUnguarded(elemCount, indices) == Len(indices) > 0

combinedProofAllowed(elemCount, indices) ==
  /\ Len(indices) > 0
  /\ indices[Len(indices)] >= minimumCombinedProofIndex(elemCount)

\* the tree nodes whose hashes the steps of a multi-proof compute, in step
\* order: the relevant nodes from leafCount - 1 down to 1
RECURSIVE stepNodes(_, _)
stepNodes(relevant, i) ==
  IF i <= 0 THEN <<>>
  ELSE IF Flag(relevant, i) = 1 THEN <<i>> \o stepNodes(relevant, i - 1)
  ELSE stepNodes(relevant, i - 1)

\* the tree nodes the decommitments of a multi-proof are, in order: the
\* existing siblings of the nodes with exactly one known child
RECURSIVE decommitmentNodes(_, _, _)
decommitmentNodes(tree, known, i) ==
  IF i <= 0 THEN <<>>
  ELSE LET left == Flag(known, 2 * i)
           right == Flag(known, 2 * i + 1)
       IN  IF left # right /\ Node(tree, 2 * i + left) # Absent
           THEN <<2 * i + left>> \o decommitmentNodes(tree, known, i - 1)
           ELSE decommitmentNodes(tree, known, i - 1)

\* the updated hash each step of getNewRoot writes, in step order
RECURSIVE updatedStepHashes(_, _, _, _, _, _, _)
updatedStepHashes(st, i, flags, skips, orders, decommitments, sorted) ==
  IF i >= Len(flags) THEN <<>>
  ELSE Let(getNewRootBooleansStep(st, i, flags, skips, orders, decommitments,
                                  sorted),
           LAMBDA next :
             <<At(next.updateHashes, st.writeIndex)>>
               \o updatedStepHashes(next, i + 1, flags, skips, orders,
                                    decommitments, sorted))

\* the tree nodes an append proof for elemCount elements reveals, top first
RECURSIVE appendNodes(_, _)
appendNodes(i, nodes) ==
  IF i <= 1 THEN nodes
  ELSE Let(IF i % 2 = 1 \/ i = 2 THEN <<i - 1>> \o nodes ELSE nodes,
           LAMBDA next : appendNodes(i \div 2, next))

\* the hash of tree node n after the update, as far as the multi-proof
\* shows it: an updated leaf, a decommitment or the output of a step
updatedNodeHash(n, leafNodes, updateLeafs, decNodes, decommitments, stepped, stepHashes) ==
  IF \E j \in DOMAIN leafNodes : leafNodes[j] = n
  THEN updateLeafs[CHOOSE j \in DOMAIN leafNodes : leafNodes[j] = n]
  ELSE IF \E j \in DOMAIN stepped : stepped[j] = n
  THEN stepHashes[CHOOSE j \in DOMAIN stepped : stepped[j] = n]
  ELSE IF \E j \in DOMAIN decNodes : decNodes[j] = n
  THEN decommitments[CHOOSE j \in DOMAIN decNodes : decNodes[j] = n]
  ELSE Absent

\* updateAndAppendWithCombinedProof: the multi-proof automaton gives the old
\* root and the updated root; the append decommitments of the updated tree
\* are taken from the multi-proof and the appended leafs are folded onto them
CombinedProofs_getNewRoot(tree, indices, leafs, updateLeafs, appendLeafs, proof, sorted) ==
  LET leafCount == treeLength(tree) \div 2
      elemCount == proof.elementCount
      start == [hashes |-> Reverse(leafs), updateHashes |-> Reverse(updateLeafs),
                readIndex |-> 0, writeIndex |-> 0, decommitmentIndex |-> 0]
      leafNodes == [j \in 1..Len(indices) |-> leafCount + indices[j]]
  IN  Let(updatedStepHashes(start, 0, proof.flags, proof.skips, proof.orders,
                            proof.decommitments, sorted), LAMBDA stepHashes :
      Let(stepNodes(proof.relevant, leafCount - 1), LAMBDA stepped :
      Let(decommitmentNodes(tree, proof.known, leafCount - 1), LAMBDA decNodes :
      Let(appendNodes(leafCount + elemCount, <<>>), LAMBDA frontier :
      Let([k \in 1..Len(frontier) |->
             updatedNodeHash(frontier[k], leafNodes, updateLeafs, decNodes,
                             proof.decommitments, stepped, stepHashes)],
          LAMBDA appendDecs :
            LET res == getNewRootBooleans(leafs, updateLeafs, elemCount,
                         proof.flags, proof.skips, proof.orders,
                         proof.decommitments, sorted)
                newRoot == IF Len(appendLeafs) = 1
                           THEN appendSingle(appendLeafs[1], elemCount,
                                             appendDecs, sorted)
                           ELSE appendMulti(appendLeafs, elemCount, appendDecs,
                                            sorted)
            IN  IF ~combinedProofAllowed(elemCount, indices)
                THEN [err |-> TRUE, root |-> Absent, newRoot |-> Absent,
                      elementCount |-> elemCount]
                ELSE [err |-> FALSE, root |-> res.root, newRoot |-> newRoot,
                      elementCount |-> elemCount + Len(appendLeafs)])))))

\* ------------------------------------------------------------ the inputs
\* the non-empty strictly ascending index lists within [0, n)
RECURSIVE ascending(_, _)
ascending(S, n) ==
  IF n < 0 THEN <<>>
  ELSE IF n \in S THEN Append(ascending(S, n - 1), n) ELSE ascending(S, n - 1)

IndexLists(n) == {ascending(S, n - 1) : S \in (SUBSET (0..(n - 1))) \ {{}}}

\* the element sequences of length n the initial tree is built from
ElementLists(n) ==
  { [i \in 1..n |-> i], [i \in 1..n |-> n + 1 - i], [i \in 1..n |-> 1] }

\* what an operation that returns no proof leaves in the proof output
NoProof == [compactProof |-> <<>>, elementCount |-> 0, decommitments |-> <<>>, flags |-> <<>>, skips |-> <<>>, orders |-> <<>>, hasOrders |-> FALSE]

\* the verifier automaton when none is running
NoAutomaton == [st |-> <<>>, liveBefore |-> {}, reads |-> {}, write |-> -1, live |-> {}]

NoOutput == [root |-> Absent, newRoot |-> Absent, elementCount |-> 0,
             indices |-> <<>>, index |-> 0, err |-> FALSE, proof |-> NoProof,
             valid |-> FALSE, events |-> <<>>, diverges |-> FALSE,
             automaton |-> NoAutomaton, halted |-> <<>>]
\* the arguments of a call of the contract, when there is none
NoCall == [tamper |-> "none", element_count |-> 0, elements |-> <<>>, new_elements |-> <<>>, hash_count |-> 0, flags |-> <<>>, skips |-> <<>>, decommitments |-> <<>>]

NoInput == [indices |-> <<>>, updateElements |-> <<>>, appendElements |-> <<>>,
            compact |-> FALSE, proof |-> NoProof, call |-> NoCall,
            tamper |-> [kind |-> "none", at |-> 0]]

\* the lists of m replacement elements; none is an element of an initial tree
UpdateLists(m) ==
  { [j \in 1..m |-> MaxN + j], [j \in 1..m |-> MaxN + m + 1 - j] }

\* the lists of k appended elements
AppendLists(k) ==
  { [j \in 1..k |-> MaxN + MaxN + j], [j \in 1..k |-> MaxN + MaxN + k + 1 - j] }

\* elems with the elements at indices replaced by updateElements
replaceAt(elems, indices, updateElements) ==
  [i \in 1..Len(elems) |->
     IF \E j \in 1..Len(indices) : indices[j] = i - 1
     THEN updateElements[CHOOSE j \in 1..Len(indices) : indices[j] = i - 1]
     ELSE elems[i]]

elementsAt(elems, indices) == [j \in 1..Len(indices) |-> elems[indices[j] + 1]]

\* ----------------------------------------------------------- the machine
Init ==
  /\ sortedHash \in BOOLEAN
  /\ \E n \in 0..MaxN : elements \in ElementLists(n)
  /\ root = computeRoot(Len(elements), treeOf(sortedHash, elements)[1])
  /\ elementCount = Len(elements)
  /\ op = "init"
  /\ inp = NoInput
  /\ out = NoOutput
  /\ steps = 0

\* Every operation is a pure function of the tree and its arguments, so a
\* behaviour of Spec applies one operation to the inputs Init drew.
Idle == op = "init"

\* getMultiProofIndices: generate a proof for indices, in boolean-array or
\* compact form, and infer the indices back from it
InferIndices ==
  /\ Idle
  /\ \E tree \in {treeOf(sortedHash, elements)} :
     \E indices \in IndexLists(Len(elements)) : \E compact \in BOOLEAN :
       \E proof \in {generate(tree, Len(elements), indices, sortedHash, compact)} :
       \E res \in {getIndices(Len(indices), proof.compactProof, proof.flags,
                              proof.skips, proof.orders)} :
           /\ ~proof.err
           /\ op' = "inferIndices"
           /\ inp' = [NoInput EXCEPT !.indices = indices, !.compact = compact]
           /\ out' = [NoOutput EXCEPT !.indices = res.indices,
                                      !.err = res.err \/ res.diverges]
           /\ UNCHANGED <<sortedHash, elements, root, elementCount, steps>>

\* verifyMultiProof: generate a proof for indices, in boolean-array or
\* compact form, and run getRoot on the proved leafs
VerifyMulti ==
  /\ Idle
  /\ \E tree \in {treeOf(sortedHash, elements)} :
     \E indices \in IndexLists(Len(elements)) : \E compact \in BOOLEAN :
       \E proof \in {generate(tree, Len(elements), indices, sortedHash, compact)} :
       \E leafs \in {leafsOf(elementsAt(elements, indices))} :
       \E res \in {getRoot(leafs, proof.compactProof, proof.elementCount,
                     proof.flags, proof.skips, proof.orders, proof.decommitments,
                     sortedHash)} :
           /\ ~proof.err
           /\ op' = "verifyMulti"
           /\ inp' = [NoInput EXCEPT !.indices = indices, !.compact = compact]
           /\ out' = [NoOutput EXCEPT !.root = res.root, !.err = res.err,
                                      !.elementCount = res.elementCount]
           /\ UNCHANGED <<sortedHash, elements, root, elementCount, steps>>

\* updateWithMultiProof: generate a proof for indices, in boolean-array or
\* compact form, and run getNewRoot on the proved leafs and their replacements
UpdateMulti ==
  /\ Idle
  /\ \E tree \in {treeOf(sortedHash, elements)} :
     \E indices \in IndexLists(Len(elements)) : \E compact \in BOOLEAN :
       \E updateElements \in UpdateLists(Len(indices)) :
         \E proof \in {generate(tree, Len(elements), indices, sortedHash, compact)} :
         \E leafs \in {leafsOf(elementsAt(elements, indices))} :
         \E updateLeafs \in {leafsOf(updateElements)} :
         \E res \in {getNewRoot(leafs, updateLeafs, proof.compactProof,
                       proof.elementCount, proof.flags, proof.skips,
                       proof.orders, proof.decommitments, sortedHash)} :
             /\ ~proof.err
             /\ op' = "updateMulti"
             /\ inp' = [NoInput EXCEPT !.indices = indices, !.compact = compact,
                                       !.updateElements = updateElements]
             /\ out' = [NoOutput EXCEPT !.root = res.root, !.err = res.err,
                                        !.newRoot = res.newRoot,
                                        !.elementCount = res.elementCount]
             /\ UNCHANGED <<sortedHash, elements, root, elementCount, steps>>

\* appendSingleWithProof: generate an append proof and run appendSingle on
\* the image of the appended element; the new count is one more
AppendSingle ==
  /\ Idle
  /\ \E appendElements \in AppendLists(1) :
       \E tree \in {treeOf(sortedHash, elements)} :
       \E proof \in {AppendProofs_generate(tree, Len(elements), FALSE)} :
       \E newRoot \in {appendSingle(hashLeaf(appendElements[1]),
                         proof.elementCount, proof.decommitments, sortedHash)} :
           /\ op' = "appendSingle"
           /\ inp' = [NoInput EXCEPT !.appendElements = appendElements]
           /\ out' = [NoOutput EXCEPT !.newRoot = newRoot,
                                      !.elementCount = proof.elementCount + 1]
           /\ UNCHANGED <<sortedHash, elements, root, elementCount, steps>>

\* appendMultiWithProof: generate an append proof and run appendMulti on the
\* images of the appended elements; the new count grows by their number
AppendMulti ==
  /\ Idle
  /\ \E k \in 1..MaxAppend : \E appendElements \in AppendLists(k) :
       \E tree \in {treeOf(sortedHash, elements)} :
       \E proof \in {AppendProofs_generate(tree, Len(elements), FALSE)} :
       \E newRoot \in {appendMulti(leafsOf(appendElements), proof.elementCount,
                         proof.decommitments, sortedHash)} :
           /\ op' = "appendMulti"
           /\ inp' = [NoInput EXCEPT !.appendElements = appendElements]
           /\ out' = [NoOutput EXCEPT !.newRoot = newRoot,
                        !.elementCount = proof.elementCount + Len(appendElements)]
           /\ UNCHANGED <<sortedHash, elements, root, elementCount, steps>>

\* updateAndAppendWithCombinedProof: generate a boolean-array multi-proof for
\* indices and use it to replace the elements at indices and to append
UpdateAndAppend ==
  /\ Idle
  /\ \E tree \in {treeOf(sortedHash, elements)} :
     \E indices \in IndexLists(Len(elements)) :
       \E updateElements \in UpdateLists(Len(indices)) :
         \E k \in 1..MaxAppend : \E appendElements \in AppendLists(k) :
           \E proof \in {generateBooleans(tree, Len(elements), indices, sortedHash)} :
           \E leafs \in {leafsOf(elementsAt(elements, indices))} :
           \E updateLeafs \in {leafsOf(updateElements)} :
           \E appendLeafs \in {leafsOf(appendElements)} :
           \E res \in {CombinedProofs_getNewRoot(tree, indices, leafs, updateLeafs,
                         appendLeafs, proof, sortedHash)} :
               /\ ~proof.err
               /\ op' = "updateAndAppend"
               /\ inp' = [NoInput EXCEPT !.indices = indices,
                                         !.updateElements = updateElements,
                                         !.appendElements = appendElements]
               /\ out' = [NoOutput EXCEPT !.root = res.root, !.err = res.err,
                                          !.newRoot = res.newRoot,
                                          !.elementCount = res.elementCount]
               /\ UNCHANGED <<sortedHash, elements, root, elementCount, steps>>

Next ==
  \/ UpdateAndAppend
  \/ InferIndices
  \/ VerifyMulti
  \/ UpdateMulti
  \/ AppendSingle
  \/ AppendMulti

Spec == Init /\ [][Next]_vars

\* ---------------------------------------------- sequences of transitions
\* a verifier holding only root and elementCount follows a tree through
\* updates and appends; elements is the element sequence the tree holds
InitSeq ==
  /\ sortedHash \in BOOLEAN
  /\ \E n \in 0..MaxSeqN : elements = [i \in 1..n |-> i]
  /\ root = computeRoot(Len(elements), treeOf(sortedHash, elements)[1])
  /\ elementCount = Len(elements)
  /\ op = "init"
  /\ inp = NoInput
  /\ out = NoOutput
  /\ steps = 0

\* the elements written by the transition after steps transitions
freshElements(m) == [j \in 1..m |-> MaxSeqLen * (steps + 1) + j]

\* update (Solidity): the root the proof leads to from the old leafs must be
\* the stored root, and the root it leads to from the new leafs is stored
SeqUpdateMulti ==
  /\ steps < MaxSteps
  /\ \E tree \in {treeOf(sortedHash, elements)} :
     \E indices \in IndexLists(Len(elements)) :
       \E updateElements \in {freshElements(Len(indices))} :
       \E proof \in {generateBooleans(tree, Len(elements), indices, sortedHash)} :
       \E res \in {getNewRootBooleans(leafsOf(elementsAt(elements, indices)),
                     leafsOf(updateElements), proof.elementCount, proof.flags,
                     proof.skips, proof.orders, proof.decommitments, sortedHash)} :
           /\ ~proof.err
           /\ res.elementCount = elementCount
           /\ computeRoot(res.elementCount, res.root) = root
           /\ root' = computeRoot(res.elementCount, res.newRoot)
           /\ elementCount' = res.elementCount
           /\ elements' = replaceAt(elements, indices, updateElements)
           /\ op' = "updateMulti"
           /\ inp' = [NoInput EXCEPT !.indices = indices,
                                     !.updateElements = updateElements]
           /\ out' = [NoOutput EXCEPT !.root = res.root,
                                      !.newRoot = res.newRoot,
                                      !.elementCount = res.elementCount]
           /\ steps' = steps + 1
           /\ UNCHANGED sortedHash

\* one element is appended with an append proof against the stored root
SeqAppendSingle ==
  /\ steps < MaxSteps
  /\ Len(elements) + 1 <= MaxSeqLen
  /\ \E tree \in {treeOf(sortedHash, elements)} :
     \E appendElements \in {freshElements(1)} :
     \E proof \in {AppendProofs_generate(tree, Len(elements), FALSE)} :
     \E oldRoot \in {AppendProofs_getRoot(proof.elementCount, proof.decommitments,
                       sortedHash)} :
     \E newRoot \in {appendSingle(hashLeaf(appendElements[1]),
                       proof.elementCount, proof.decommitments, sortedHash)} :
         /\ proof.elementCount = elementCount
         /\ computeRoot(proof.elementCount, oldRoot) = root
         /\ root' = computeRoot(proof.elementCount + 1, newRoot)
         /\ elementCount' = proof.elementCount + 1
         /\ elements' = elements \o appendElements
         /\ op' = "appendSingle"
         /\ inp' = [NoInput EXCEPT !.appendElements = appendElements]
         /\ out' = [NoOutput EXCEPT !.root = oldRoot, !.newRoot = newRoot,
                                    !.elementCount = proof.elementCount + 1]
         /\ steps' = steps + 1
         /\ UNCHANGED sortedHash

\* several elements are appended with an append proof against the stored root
SeqAppendMulti ==
  /\ steps < MaxSteps
  /\ \E k \in 2..MaxAppend :
       /\ Len(elements) + k <= MaxSeqLen
       /\ \E tree \in {treeOf(sortedHash, elements)} :
          \E appendElements \in {freshElements(k)} :
          \E proof \in {AppendProofs_generate(tree, Len(elements), FALSE)} :
          \E oldRoot \in {AppendProofs_getRoot(proof.elementCount,
                            proof.decommitments, sortedHash)} :
          \E newRoot \in {appendMulti(leafsOf(appendElements), proof.elementCount,
                            proof.decommitments, sortedHash)} :
              /\ proof.elementCount = elementCount
              /\ computeRoot(proof.elementCount, oldRoot) = root
              /\ root' = computeRoot(proof.elementCount + k, newRoot)
              /\ elementCount' = proof.elementCount + k
              /\ elements' = elements \o appendElements
              /\ op' = "appendMulti"
              /\ inp' = [NoInput EXCEPT !.appendElements = appendElements]
              /\ out' = [NoOutput EXCEPT !.root = oldRoot, !.newRoot = newRoot,
                                         !.elementCount = proof.elementCount + k]
              /\ steps' = steps + 1
              /\ UNCHANGED sortedHash

NextSeq ==
  \/ SeqUpdateMulti
  \/ SeqAppendSingle
  \/ SeqAppendMulti

SpecSeq == InitSeq /\ [][NextSeq]_vars

\* ------------------------------------------------- the minimum index alone
\* only the element count of the tree enters the minimum index
InitMinimumIndex ==
  /\ sortedHash = FALSE
  /\ elements = <<>>
  /\ root = Absent
  /\ elementCount \in 1..MaxElementCount
  /\ op = "init"
  /\ inp = NoInput
  /\ out = NoOutput
  /\ steps = 0

MinimumIndex ==
  /\ Idle
  /\ op' = "minimumIndex"
  /\ out' = [NoOutput EXCEPT !.index = minimumCombinedProofIndex(elementCount)]
  /\ UNCHANGED <<sortedHash, elements, root, elementCount, inp, steps>>

NextMinimumIndex == MinimumIndex

SpecMinimumIndex == InitMinimumIndex /\ [][NextMinimumIndex]_vars

\* ---------------------------------------------------------------- claims
\* C1: for every tree of N >= 1 leaves and every non-empty strictly
\* ascending index list, getRoot (boolean-array form) on the leaf images at
\* the indices and the proof generate returned yields tree[1], and
\* H(N, result) is the tree's root.
C1_MultiProofRoundTrip ==
  (op = "verifyMulti" /\ ~inp.compact) =>
    /\ ~out.err
    /\ out.root = treeOf(sortedHash, elements)[1]
    /\ out.elementCount = Len(elements)
    /\ computeRoot(out.elementCount, out.root) = root

C1_Witness ==
  /\ op = "verifyMulti"
  /\ ~inp.compact
  /\ Len(elements) = 5
  /\ inp.indices = <<1, 4>>
  /\ out.root = treeOf(sortedHash, elements)[1]

\* C2: getNewRoot on the old and the new leaf images at the indices and the
\* proof generated for them returns, as newRoot, node 1 of the tree freshly
\* built from the elements with the positions replaced (and the old tree's
\* node 1 as root).
C2_MultiUpdateConsistency ==
  (op = "updateMulti" /\ ~inp.compact) =>
    LET updated == replaceAt(elements, inp.indices, inp.updateElements) IN
    /\ ~out.err
    /\ out.newRoot = treeOf(sortedHash, updated)[1]
    /\ computeRoot(out.elementCount, out.newRoot)
         = computeRoot(Len(updated), treeOf(sortedHash, updated)[1])
    /\ computeRoot(out.elementCount, out.root) = root

C2_Witness ==
  /\ op = "updateMulti"
  /\ ~inp.compact
  /\ Len(elements) = 5
  /\ inp.indices = <<0, 3, 4>>
  /\ out.newRoot # out.root
  /\ out.newRoot = treeOf(sortedHash, replaceAt(elements, inp.indices,
                                                inp.updateElements))[1]

\* C3: appendSingle on the append leaf image, N and the decommitments of the
\* append proof of the N-element tree equals node 1 of the tree freshly built
\* from the elements followed by the appended one (the leaf image itself for
\* N = 0), and the resulting element count is N + 1.
C3_SingleAppendConsistency ==
  op = "appendSingle" =>
    LET appended == elements \o inp.appendElements IN
    /\ out.newRoot = treeOf(sortedHash, appended)[1]
    /\ out.elementCount = Len(elements) + 1
    /\ Len(elements) = 0 => out.newRoot = hashLeaf(inp.appendElements[1])

C3_Witness ==
  /\ op = "appendSingle"
  /\ Len(elements) = 5
  /\ out.elementCount = 6
  /\ out.newRoot = treeOf(sortedHash, elements \o inp.appendElements)[1]

\* C4: appendMulti on the append leaf images, N and the decommitments of the
\* append proof of the N-element tree equals node 1 of the tree freshly built
\* from the elements followed by the appended ones, also when more elements
\* are appended than the tree holds and when the count crosses powers of
\* two; the resulting element count is N + |A|.
C4_MultiAppendConsistency ==
  op = "appendMulti" =>
    LET appended == elements \o inp.appendElements IN
    /\ out.newRoot = treeOf(sortedHash, appended)[1]
    /\ out.elementCount = Len(elements) + Len(inp.appendElements)

\* one element, three appended: more than the tree holds, crossing 2 and 4
C4_Witness ==
  /\ op = "appendMulti"
  /\ Len(elements) = 1
  /\ Len(inp.appendElements) = 3
  /\ out.elementCount = 4
  /\ out.newRoot = treeOf(sortedHash, elements \o inp.appendElements)[1]

\* C5: with the ordered hash, getIndices on |I| and the flags, skips and
\* orders generate produced for I returns exactly I, for every tree of
\* N >= 1 leaves, the 1-leaf tree with I = [0] included.
C5_IndexInferenceRoundTrip ==
  (op = "inferIndices" /\ ~inp.compact /\ ~sortedHash) =>
    (~out.err /\ out.indices = inp.indices)

\* the same for every proof that has at least one step
C5_IndexInferenceWithSteps ==
  (op = "inferIndices" /\ ~inp.compact /\ ~sortedHash /\ Len(elements) >= 2) =>
    (~out.err /\ out.indices = inp.indices)

\* the boolean-array proof the compact proof of the last operation encodes
booleansOfInput ==
  generateBooleans(treeOf(sortedHash, elements), Len(elements), inp.indices,
                   sortedHash)

\* C6 (getRoot): getRootBits on the compact proof for I returns the root
\* getRootBooleans returns on the boolean-array proof for I.
C6_GetRootBitsEquivalent ==
  (op = "verifyMulti" /\ inp.compact) =>
    LET proof == booleansOfInput
        res == getRootBooleans(leafsOf(elementsAt(elements, inp.indices)),
                 proof.elementCount, proof.flags, proof.skips, proof.orders,
                 proof.decommitments, sortedHash)
    IN  ~out.err /\ out.root = res.root /\ out.elementCount = res.elementCount

\* C6 (getNewRoot): getNewRootBits returns the root and newRoot
\* getNewRootBooleans returns.
C6_GetNewRootBitsEquivalent ==
  (op = "updateMulti" /\ inp.compact) =>
    LET proof == booleansOfInput
        res == getNewRootBooleans(leafsOf(elementsAt(elements, inp.indices)),
                 leafsOf(inp.updateElements), proof.elementCount, proof.flags,
                 proof.skips, proof.orders, proof.decommitments, sortedHash)
    IN  ~out.err /\ out.root = res.root /\ out.newRoot = res.newRoot

\* C6 (getIndices): getIndicesWithBits returns what getIndicesWithBooleans
\* returns, an error included.
C6_GetIndicesBitsEquivalent ==
  (op = "inferIndices" /\ inp.compact) =>
    LET proof == booleansOfInput
        res == getIndicesWithBooleans(Len(inp.indices), proof.flags, proof.skips,
                                      proof.orders)
    IN  out.err = res.err /\ out.indices = res.indices

\* C6: for every tree, hash variant and strictly ascending index list the
\* compact and the boolean-array proof give the same results: getRoot on
\* root, getNewRoot on root and newRoot, getIndices on the indices.
C6_BitFormEquivalence ==
  /\ C6_GetRootBitsEquivalent
  /\ C6_GetNewRootBitsEquivalent
  /\ C6_GetIndicesBitsEquivalent

C8_CombinedConsistency ==
  (op = "updateAndAppend"
     /\ inp.indices[1] >= minimumCombinedProofIndex(Len(elements))) =>
    LET result == replaceAt(elements, inp.indices, inp.updateElements)
                    \o inp.appendElements
    IN  /\ ~out.err
        /\ out.newRoot = treeOf(sortedHash, result)[1]
        /\ out.elementCount = Len(elements) + Len(inp.appendElements)
        /\ computeRoot(Len(elements), out.root) = root

\* six elements, minimum index 4, both elements of the last pair replaced,
\* three appended
C8_Witness ==
  /\ op = "updateAndAppend"
  /\ Len(elements) = 6
  /\ inp.indices = <<4, 5>>
  /\ Len(inp.appendElements) = 3
  /\ ~out.err
  /\ out.elementCount = 9

lowestSetBit(n) ==
  CHOOSE p \in {pow2(k) : k \in 0..30} : n % p = 0 /\ (n \div p) % 2 = 1

\* the minimum indices the tests expect
expectedMinimumIndex ==
  (1 :> 0) @@ (2 :> 0) @@ (4 :> 0) @@ (8 :> 0) @@ (3 :> 2) @@ (5 :> 4)
  @@ (6 :> 4) @@ (7 :> 6) @@ (23 :> 22) @@ (48 :> 32) @@ (365 :> 364)
  @@ (384 :> 256) @@ (580 :> 576) @@ (1792 :> 1536)

\* C9: minimumCombinedProofIndex(N) is N with its lowest set bit cleared, for
\* every N >= 1, and takes the values the tests list.
C9_MinimumIndexClearsLowestSetBit ==
  (op = "minimumIndex") =>
    /\ out.index = elementCount - lowestSetBit(elementCount)
    /\ elementCount \in DOMAIN expectedMinimumIndex =>
         out.index = expectedMinimumIndex[elementCount]

C9_Witness ==
  /\ op = "minimumIndex"
  /\ elementCount = 1792
  /\ out.index = 1536

AnyIndexLists(n) ==
  UNION { [1..k -> 0..(n - 1)] : k \in 1..MaxListLen }

\* the fields of a generated proof the caller receives
returnedProof(proof) ==
  [compactProof |-> proof.compactProof, elementCount |-> proof.elementCount,
   decommitments |-> proof.decommitments, flags |-> proof.flags,
   skips |-> proof.skips, orders |-> proof.orders,
   hasOrders |-> proof.hasOrders]

\* generateMultiProof: generate a proof for a list of indices, in
\* boolean-array or compact form; a throw leaves no proof
Generate ==
  /\ Idle
  /\ \E tree \in {treeOf(sortedHash, elements)} :
     \E indices \in IndexLists(Len(elements)) \cup AnyIndexLists(Len(elements)) :
     \E compact \in BOOLEAN :
       \E proof \in {generate(tree, Len(elements), indices, sortedHash, compact)} :
           /\ op' = "generate"
           /\ inp' = [NoInput EXCEPT !.indices = indices, !.compact = compact]
           /\ out' = [NoOutput EXCEPT
                        !.err = proof.err,
                        !.proof = IF proof.err THEN NoProof
                                  ELSE returnedProof(proof)]
           /\ UNCHANGED <<sortedHash, elements, root, elementCount, steps>>

NextGenerate == Generate

\* element count of the tree of the documented compact proof
ExampleElementCount == 8

\* the trees of Init and the tree of the documented example
InitGenerate ==
  /\ sortedHash \in BOOLEAN
  /\ \E n \in (0..MaxN) \cup {ExampleElementCount} : elements \in ElementLists(n)
  /\ root = computeRoot(Len(elements), treeOf(sortedHash, elements)[1])
  /\ elementCount = Len(elements)
  /\ op = "init"
  /\ inp = NoInput
  /\ out = NoOutput
  /\ steps = 0

SpecGenerate == InitGenerate /\ [][NextGenerate]_vars

strictlyAscending(indices) ==
  \A j \in 1..(Len(indices) - 1) : indices[j] < indices[j + 1]

\* some index is smaller than its predecessor
descends(indices) ==
  \E j \in 1..(Len(indices) - 1) : indices[j] > indices[j + 1]

\* C12: multi-proof generation fails for every index list that is not
\* strictly ascending, be it by an index smaller than its predecessor or by
\* a repeated index, and then returns no proof.
C12_UnsortedIndicesFail ==
  (op = "generate" /\ ~strictlyAscending(inp.indices))
    => (out.err /\ out.proof = NoProof)

\* C12, the part the code keeps: a list with an index smaller than its
\* predecessor makes generation fail without a proof.
C12_DescendingIndicesFail ==
  (op = "generate" /\ descends(inp.indices))
    => (out.err /\ out.proof = NoProof)

C12_DescendingWitness ==
  /\ op = "generate"
  /\ inp.indices = <<2, 1>>
  /\ out.err

\* a repeated index passes the order check and a proof is returned
C12_RepeatedIndexAccepted ==
  /\ op = "generate"
  /\ inp.indices = <<1, 1>>
  /\ ~out.err
  /\ out.proof # NoProof

\* -------------------------------------------------- capacity of the words
\* Boolean-array proofs of hashCount steps, as generateBooleans returns them.
\* period 1 is the proof of all leafs of a perfect tree of hashCount + 1
\* leafs: every step combines two known nodes, none is skipped, the left
\* child is always known.  The other periods mix steps that read a
\* decommitment in.
booleansOfLength(hashCount, period, sorted) ==
  LET flags == [i \in 1..hashCount |-> IF i % period = 0 THEN 1 ELSE 0]
      orders == [i \in 1..hashCount |-> IF i % period = 0 THEN 1 ELSE i % 2]
  IN  [err |-> FALSE,
       compactProof |-> <<>>,
       elementCount |-> hashCount + 1,
       decommitments |-> SelectSeq([i \in 1..hashCount |-> IF flags[i] = 0 THEN to32ByteBuffer(i) ELSE Absent], LAMBDA d : d # Absent),
       flags |-> flags,
       skips |-> [i \in 1..hashCount |-> 0],
       orders |-> IF sorted THEN <<>> ELSE orders,
       hasOrders |-> ~sorted,
       known |-> <<>>,
       relevant |-> <<>>]

InitCapacity ==
  /\ sortedHash \in BOOLEAN
  /\ elements = <<>>
  /\ root = Absent
  /\ elementCount = 0
  /\ op = "init"
  /\ \E hashCount \in 0..MaxHashCount : \E period \in 1..3 :
       inp = [NoInput EXCEPT
                !.compact = TRUE,
                !.proof = returnedProof(booleansOfLength(hashCount, period, sortedHash))]
  /\ out = NoOutput
  /\ steps = 0

\* generateBits on the boolean-array proof generateBooleans returned
PackBits ==
  /\ Idle
  /\ \E booleans \in {[inp.proof EXCEPT !.hasOrders = ~sortedHash] @@ [err |-> FALSE, known |-> <<>>, relevant |-> <<>>]} :
     \E proof \in {bitsOfBooleans(booleans)} :
       /\ op' = "generateBits"
       /\ out' = [NoOutput EXCEPT
                    !.err = proof.err,
                    !.proof = IF proof.err THEN NoProof ELSE returnedProof(proof)]
       /\ UNCHANGED <<sortedHash, elements, root, elementCount, inp, steps>>

NextCapacity == PackBits

SpecCapacity == InitCapacity /\ [][NextCapacity]_vars

\* bit i of the 32-byte word written from a BigInt
wordBit(word, i) == Bit(Tail(word), i)

\* the position of the highest set bit of a word, -1 for the zero word
highestBit(word) == Len(word) - 2

\* C13: generateBits fails whenever the proof has more than 255 hash steps;
\* with 255 steps or fewer it succeeds, and with exactly 255 steps the stop
\* bit is bit 255, the highest bit of the 256-bit flags and skips words.
C13_CapacityExceeded ==
  op = "generateBits" =>
    LET hashCount == Len(inp.proof.flags)
    IN  /\ hashCount > 255 => (out.err /\ out.proof = NoProof)
        /\ hashCount <= 255 => (~out.err /\ Len(out.proof.compactProof) >= 3)
        /\ hashCount = 255 =>
             \A w \in 2..3 :
               LET word == out.proof.compactProof[w]
                   bits == IF w = 2 THEN inp.proof.flags ELSE inp.proof.skips
               IN  /\ highestBit(word) = 255
                   /\ wordBit(word, 255) = 1
                   /\ \A i \in 0..254 : wordBit(word, i) = bits[i + 1]

\* a proof of exactly 255 steps was packed, and one of 256 steps refused
C13_Witness ==
  /\ op = "generateBits"
  /\ Len(inp.proof.flags) = 255
  /\ ~out.err
  /\ wordBit(out.proof.compactProof[2], 255) = 1

C13_RefusedWitness ==
  /\ op = "generateBits"
  /\ Len(inp.proof.flags) = 256
  /\ out.err

\* the proofs InitCapacity draws with period 1 are those generateBooleans
\* returns for all leafs of a perfect tree
FullTreeProofShape ==
  (op = "generate" /\ ~inp.compact /\ Len(elements) \in {1, 2, 4}
     /\ inp.indices = [i \in 1..Len(elements) |-> i - 1])
    => out.proof = returnedProof(booleansOfLength(Len(elements) - 1, 1, sortedHash))

\* ----------------------------------------------------- compact encoding
\* the word holds the bits of stream in positions 0..hashCount-1
holdsStream(word, stream, hashCount) ==
  \A i \in 0..(hashCount - 1) : wordBit(word, i) = stream[i + 1]

\* the word carries a stop bit at position hashCount and nothing above it
stoppedAt(word, hashCount) ==
  wordBit(word, hashCount) = 1 /\ highestBit(word) = hashCount

\* the compact word sequence is [N, flags, skips, orders?, decommitments...]
\* for the boolean-array proof of the same input
wordSequenceOf(compactProof, booleans) ==
  /\ Len(compactProof) = 3 + (IF booleans.hasOrders THEN 1 ELSE 0) + Len(booleans.decommitments)
  /\ compactProof[1] = to32ByteBuffer(booleans.elementCount)
  /\ SubSeq(compactProof, Len(compactProof) - Len(booleans.decommitments) + 1, Len(compactProof)) = booleans.decommitments
  /\ compactProof[2][1] = -2
  /\ compactProof[3][1] = -2
  /\ booleans.hasOrders => compactProof[4][1] = -2

\* C14 as stated: in a compact proof for the ordered hash each of the flags,
\* skips and orders words holds step i's value in bit i below hashCount and
\* a single stop bit at position hashCount; the word sequence is
\* [N, flags, skips, orders, decommitments...], orders iff the hash is ordered.
C14_ThreeStoppedWords ==
  (op = "generate" /\ inp.compact /\ ~out.err)
    => LET booleans == booleansOfInput
           hashCount == Len(booleans.flags)
           words == out.proof.compactProof
       IN  /\ wordSequenceOf(words, booleans)
           /\ booleans.hasOrders = ~sortedHash
           /\ holdsStream(words[2], booleans.flags, hashCount)
           /\ stoppedAt(words[2], hashCount)
           /\ holdsStream(words[3], booleans.skips, hashCount)
           /\ stoppedAt(words[3], hashCount)
           /\ ~sortedHash =>
                /\ holdsStream(words[4], booleans.orders, hashCount)
                /\ stoppedAt(words[4], hashCount)

\* C14 as the code has it: the flags and skips words hold step i's value in
\* bit i below hashCount and a single stop bit at position hashCount; the
\* orders word holds step i's order in bit i and no stop bit, all its bits
\* from hashCount on being zero; the word sequence is
\* [N, flags, skips, orders, decommitments...], orders iff the hash is ordered.
C14_CompactEncoding ==
  (op = "generate" /\ inp.compact /\ ~out.err)
    => LET booleans == booleansOfInput
           hashCount == Len(booleans.flags)
           words == out.proof.compactProof
       IN  /\ wordSequenceOf(words, booleans)
           /\ booleans.hasOrders = ~sortedHash
           /\ holdsStream(words[2], booleans.flags, hashCount)
           /\ stoppedAt(words[2], hashCount)
           /\ holdsStream(words[3], booleans.skips, hashCount)
           /\ stoppedAt(words[3], hashCount)
           /\ ~sortedHash =>
                /\ holdsStream(words[4], booleans.orders, hashCount)
                /\ highestBit(words[4]) < hashCount

\* the documented proof of elements 1, 4, 5 of 8: the words 0x31, 0x20, 0x1d
\* and three decommitments
C14_Witness ==
  /\ op = "generate"
  /\ inp.compact
  /\ ~sortedHash
  /\ Len(elements) = ExampleElementCount
  /\ inp.indices = <<1, 4, 5>>
  /\ ~out.err
  /\ Len(out.proof.compactProof) = 7
  /\ from32ByteBuffer(out.proof.compactProof[1]) = 8
  /\ bufferToBigInt(out.proof.compactProof[2]) = 49
  /\ bufferToBigInt(out.proof.compactProof[3]) = 32
  /\ bufferToBigInt(out.proof.compactProof[4]) = 29

\* ------------------------------------------- the contract Flag_Multi_Proofs
\* The contract hashes pairs with hash_pair (the sorted hash), takes the
\* proved elements highest index first, and takes the flags and skips words
\* of the compact proof with the number of hash steps beside them.  An
\* element is the 32-byte word of its number.  A read past the end of an
\* array and a modulo by zero revert the call.

\* length of a bytes32 value
bytes32Length == 32

\* x & bit_check == bit_check in iteration i, bit_check being 1 << i
maskSet(x, i) == wordBit(x, i) = 1

\* bytes32(0) hashed with each element
leafHashes(elems) == [k \in 1..Len(elems) |-> hash_node(to32ByteBuffer(0), elems[k])]

\* one iteration of the loop of verify
verifyStep(st, flags, skips, decommitments) ==
  LET leaf_count == Len(st.hashes)
  IN
  IF maskSet(skips, st.i)
  THEN [st EXCEPT
          !.hashes = Put(@, st.hash_write_index, At(st.hashes, st.hash_read_index)),
          !.hash_read_index = (@ + 1) % leaf_count,
          !.hash_write_index = (@ + 1) % leaf_count,
          !.i = @ + 1]
  ELSE
    LET flag == maskSet(flags, st.i)
        left == IF flag THEN At(st.hashes, st.hash_read_index)
                ELSE At(decommitments, st.decommitment_index)
        read == IF flag THEN (st.hash_read_index + 1) % leaf_count
                ELSE st.hash_read_index % leaf_count
    IN  IF left = Absent
        THEN [st EXCEPT !.reverted = TRUE]
        ELSE [st EXCEPT
                !.hashes = Put(@, st.hash_write_index, hash_pair(left, At(st.hashes, read))),
                !.hash_read_index = (read + 1) % leaf_count,
                !.hash_write_index = (@ + 1) % leaf_count,
                !.decommitment_index = IF flag THEN @ ELSE @ + 1,
                !.i = @ + 1]

RECURSIVE verifyLoop(_, _, _, _, _)
verifyLoop(st, hash_count, flags, skips, decommitments) ==
  IF st.reverted \/ st.i >= hash_count THEN st
  ELSE Let(verifyStep(st, flags, skips, decommitments), LAMBDA next :
             verifyLoop(next, hash_count, flags, skips, decommitments))

\* verify after its length check: the root recomputed from the arguments
recomputedRoot(element_count, elems, hash_count, flags, skips, decommitments) ==
  LET leaf_count == Len(elems)
      start == [hashes |-> leafHashes(elems), hash_read_index |-> 0,
                hash_write_index |-> 0, decommitment_index |-> 0, i |-> 0,
                reverted |-> FALSE]
  IN  IF leaf_count = 0 THEN [reverted |-> TRUE, root |-> Absent]
      ELSE Let(verifyLoop(start, hash_count, flags, skips, decommitments), LAMBDA st :
             IF st.reverted THEN [reverted |-> TRUE, root |-> Absent]
             ELSE [reverted |-> FALSE,
                   root |-> hash_node(to32ByteBuffer(element_count), At(st.hashes, (IF st.hash_write_index = 0 THEN leaf_count ELSE st.hash_write_index) - 1))])

\* verify: flags.length and skips.length are the length of a bytes32
verify(storedRoot, element_count, elems, hash_count, flags, skips, decommitments) ==
  IF bytes32Length # hash_count /\ bytes32Length # hash_count
  THEN [reverted |-> FALSE, valid |-> FALSE]
  ELSE Let(recomputedRoot(element_count, elems, hash_count, flags, skips, decommitments), LAMBDA res :
             [reverted |-> res.reverted, valid |-> ~res.reverted /\ res.root = storedRoot])

\* the hash chain of the elements; its last entry is data_used
RECURSIVE dataUsed(_, _)
dataUsed(elems, k) ==
  IF k = 0 THEN to32ByteBuffer(0) ELSE hash_node(dataUsed(elems, k - 1), elems[k])

\* the outcome of a reverted transaction: nothing written, nothing logged
revert(storedRoot) == [reverted |-> TRUE, valid |-> FALSE, root |-> storedRoot, events |-> <<>>]

use(storedRoot, element_count, elems, hash_count, flags, skips, decommitments) ==
  Let(verify(storedRoot, element_count, elems, hash_count, flags, skips, decommitments), LAMBDA res :
        IF res.reverted \/ ~res.valid THEN revert(storedRoot)
        ELSE [reverted |-> FALSE, valid |-> TRUE, root |-> storedRoot,
              events |-> <<dataUsed(elems, Len(elems))>>])

\* one iteration of the loop of update
updateStep(st, flags, skips, decommitments) ==
  LET leaf_count == Len(st.hashes)
  IN
  IF maskSet(skips, st.i)
  THEN [st EXCEPT
          !.hashes = Put(@, st.hash_write_index, At(st.hashes, st.hash_read_index)),
          !.new_hashes = Put(@, st.hash_write_index, At(st.new_hashes, st.hash_read_index)),
          !.hash_read_index = (@ + 1) % leaf_count,
          !.hash_write_index = (@ + 1) % leaf_count,
          !.i = @ + 1]
  ELSE
    LET flag == maskSet(flags, st.i)
        left == IF flag THEN At(st.hashes, st.hash_read_index)
                ELSE At(decommitments, st.decommitment_index)
        new_left == IF flag THEN At(st.hashes, st.hash_read_index)
                    ELSE At(decommitments, st.decommitment_index)
        read == IF flag THEN (st.hash_read_index + 1) % leaf_count
                ELSE st.hash_read_index % leaf_count
    IN  IF left = Absent
        THEN [st EXCEPT !.reverted = TRUE]
        ELSE [st EXCEPT
                !.hashes = Put(@, st.hash_write_index, hash_pair(left, At(st.hashes, read))),
                !.new_hashes = Put(@, st.hash_write_index, hash_pair(new_left, At(st.new_hashes, read))),
                !.hash_read_index = (read + 1) % leaf_count,
                !.hash_write_index = (@ + 1) % leaf_count,
                !.decommitment_index = IF flag THEN @ ELSE @ + 1,
                !.i = @ + 1]

RECURSIVE updateLoop(_, _, _, _, _)
updateLoop(st, hash_count, flags, skips, decommitments) ==
  IF st.reverted \/ st.i >= hash_count THEN st
  ELSE Let(updateStep(st, flags, skips, decommitments), LAMBDA next :
             updateLoop(next, hash_count, flags, skips, decommitments))

\* update that writes the new root without requiring the old one
updateUnchecked(storedRoot, element_count, elems, new_elements, hash_count, flags, skips, decommitments) ==
  LET leaf_count == Len(elems)
      start == [hashes |-> leafHashes(elems), new_hashes |-> leafHashes(new_elements),
                hash_read_index |-> 0, hash_write_index |-> 0,
                decommitment_index |-> 0, i |-> 0, reverted |-> FALSE]
  IN  IF leaf_count = 0 \/ Len(new_elements) < leaf_count THEN revert(storedRoot)
      ELSE Let(updateLoop(start, hash_count, flags, skips, decommitments), LAMBDA st :
             LET hash_read_index == (IF st.hash_write_index = 0 THEN leaf_count ELSE st.hash_write_index) - 1
             IN  IF st.reverted
                 THEN revert(storedRoot)
                 ELSE [reverted |-> FALSE, valid |-> TRUE,
                       root |-> hash_node(to32ByteBuffer(element_count), At(st.new_hashes, hash_read_index)),
                       events |-> <<>>])

update(storedRoot, element_count, elems, new_elements, hash_count, flags, skips, decommitments) ==
  LET leaf_count == Len(elems)
      start == [hashes |-> leafHashes(elems), new_hashes |-> leafHashes(new_elements),
                hash_read_index |-> 0, hash_write_index |-> 0,
                decommitment_index |-> 0, i |-> 0, reverted |-> FALSE]
  IN  IF leaf_count = 0 \/ Len(new_elements) < leaf_count THEN revert(storedRoot)
      ELSE Let(updateLoop(start, hash_count, flags, skips, decommitments), LAMBDA st :
             LET hash_read_index == (IF st.hash_write_index = 0 THEN leaf_count ELSE st.hash_write_index) - 1
             IN  IF st.reverted \/ hash_node(to32ByteBuffer(element_count), At(st.hashes, hash_read_index)) # storedRoot
                 THEN revert(storedRoot)
                 ELSE [reverted |-> FALSE, valid |-> TRUE,
                       root |-> hash_node(to32ByteBuffer(element_count), At(st.new_hashes, hash_read_index)),
                       events |-> <<>>])

use_and_update(storedRoot, element_count, elems, hash_count, flags, skips, decommitments) ==
  LET new_elements == [k \in 1..Len(elems) |-> dataUsed(elems, k)]
  IN  Let(update(storedRoot, element_count, elems, new_elements, hash_count, flags, skips, decommitments), LAMBDA res :
            IF res.reverted THEN res
            ELSE [res EXCEPT !.events = <<dataUsed(elems, Len(elems))>>])

\* the contract deployed with the root of a sorted-hash tree
InitContract ==
  /\ sortedHash = TRUE
  /\ \E n \in 1..MaxN : elements \in ElementLists(n)
  /\ root = computeRoot(Len(elements), treeOf(sortedHash, elements)[1])
  /\ elementCount = Len(elements)
  /\ op = "init"
  /\ inp = NoInput
  /\ out = NoOutput
  /\ steps = 0

\* the ways a caller departs from the arguments of a valid call
Tampers == {"none", "count", "element", "decommitment", "order"}

\* an element of no tree
foreignElement == to32ByteBuffer(MaxN + MaxN + MaxN + 1)

\* the arguments of a call for the proof of indices: the elements highest
\* index first, the words of the compact proof, and hash_count
callOf(compactProof, indices, updateElements, tamper, hash_count) ==
  LET descending == Reverse([j \in 1..Len(indices) |-> to32ByteBuffer(elements[indices[j] + 1])])
      decommitments == Slice(compactProof, 3)
  IN  [tamper |-> tamper,
       element_count |-> IF tamper = "count" THEN Len(elements) + 1 ELSE Len(elements),
       elements |-> IF tamper = "element" THEN [descending EXCEPT ![1] = foreignElement]
                    ELSE IF tamper = "order" THEN Reverse(descending)
                    ELSE descending,
       new_elements |-> Reverse([j \in 1..Len(updateElements) |-> to32ByteBuffer(updateElements[j])]),
       hash_count |-> hash_count,
       flags |-> compactProof[2],
       skips |-> compactProof[3],
       decommitments |-> IF tamper = "decommitment" /\ Len(decommitments) > 0
                         THEN SubSeq(decommitments, 1, Len(decommitments) - 1)
                         ELSE decommitments]

\* the numbers of hash steps a caller passes beside a proof of hashCount steps
HashCounts(hashCount) ==
  {hashCount, hashCount + 1, bytes32Length} \cup (IF hashCount > 0 THEN {hashCount - 1} ELSE {})

\* the calls made on the contract for the proofs of the tree
Calls(updateLists) ==
  UNION { LET compactProof == generateBits(treeOf(sortedHash, elements), Len(elements), indices, sortedHash).compactProof
          IN  { <<indices, updateElements, callOf(compactProof, indices, updateElements, tamper, hash_count)>> :
                  updateElements \in (IF updateLists THEN UpdateLists(Len(indices)) ELSE {<<>>}),
                  tamper \in Tampers,
                  hash_count \in HashCounts(highestBit(compactProof[2])) }
        : indices \in IndexLists(Len(elements)) }

ContractVerify ==
  /\ Idle
  /\ \E c \in Calls(FALSE) :
     \E call \in {c[3]} :
     \E res \in {verify(root, call.element_count, call.elements, call.hash_count, call.flags, call.skips, call.decommitments)} :
       /\ op' = "verify"
       /\ inp' = [NoInput EXCEPT !.indices = c[1], !.compact = TRUE, !.call = call]
       /\ out' = [NoOutput EXCEPT !.err = res.reverted, !.valid = res.valid]
       /\ UNCHANGED <<sortedHash, elements, root, elementCount, steps>>

ContractUse ==
  /\ Idle
  /\ \E c \in Calls(FALSE) :
     \E call \in {c[3]} :
     \E res \in {use(root, call.element_count, call.elements, call.hash_count, call.flags, call.skips, call.decommitments)} :
       /\ op' = "use"
       /\ inp' = [NoInput EXCEPT !.indices = c[1], !.compact = TRUE, !.call = call]
       /\ out' = [NoOutput EXCEPT !.err = res.reverted, !.valid = res.valid, !.events = res.events]
       /\ root' = res.root
       /\ UNCHANGED <<sortedHash, elements, elementCount, steps>>

ContractUpdate ==
  /\ Idle
  /\ \E c \in Calls(TRUE) :
     \E call \in {c[3]} :
     \E res \in {update(root, call.element_count, call.elements, call.new_elements, call.hash_count, call.flags, call.skips, call.decommitments)} :
       /\ op' = "update"
       /\ inp' = [NoInput EXCEPT !.indices = c[1], !.updateElements = c[2], !.compact = TRUE, !.call = call]
       /\ out' = [NoOutput EXCEPT !.err = res.reverted, !.valid = res.valid, !.events = res.events]
       /\ root' = res.root
       /\ UNCHANGED <<sortedHash, elements, elementCount, steps>>

ContractUseAndUpdate ==
  /\ Idle
  /\ \E c \in Calls(FALSE) :
     \E call \in {c[3]} :
     \E res \in {use_and_update(root, call.element_count, call.elements, call.hash_count, call.flags, call.skips, call.decommitments)} :
       /\ op' = "use_and_update"
       /\ inp' = [NoInput EXCEPT !.indices = c[1], !.compact = TRUE, !.call = call]
       /\ out' = [NoOutput EXCEPT !.err = res.reverted, !.valid = res.valid, !.events = res.events]
       /\ root' = res.root
       /\ UNCHANGED <<sortedHash, elements, elementCount, steps>>

NextContract ==
  \/ ContractVerify
  \/ ContractUse
  \/ ContractUpdate
  \/ ContractUseAndUpdate

SpecContract == InitContract /\ [][NextContract]_vars

\* the root the contract was deployed with
deployedRoot == computeRoot(Len(elements), treeOf(TRUE, elements)[1])

\* the call passes the arguments of the valid proof and its number of steps
validCall ==
  /\ inp.call.tamper = "none"
  /\ inp.call.hash_count = highestBit(inp.call.flags)

\* C15: update called on a stored root of L with N, the elements at I highest
\* index first, their replacements and the compact sorted-hash proof for I
\* does not revert and stores the root of L with the positions I replaced,
\* bound to the same element count N.
C15_ContractUpdate ==
  (op = "update" /\ validCall)
    => /\ ~out.err
       /\ root = computeRoot(Len(elements), treeOf(TRUE, replaceAt(elements, inp.indices, inp.updateElements))[1])

\* C15 for the update of one element: the call stores the rebuilt root
C15_ContractUpdateOfOneElement ==
  (op = "update" /\ validCall /\ Len(inp.indices) = 1)
    => /\ ~out.err
       /\ root = computeRoot(Len(elements), treeOf(TRUE, replaceAt(elements, inp.indices, inp.updateElements))[1])

C15_OneElementWitness ==
  /\ op = "update"
  /\ validCall
  /\ Len(elements) = 5
  /\ inp.indices = <<4>>
  /\ ~out.err
  /\ root # deployedRoot

\* the root verify and update recompute from the arguments of the call;
\* Absent when the computation reverts
recomputedOfCall ==
  recomputedRoot(inp.call.element_count, inp.call.elements, inp.call.hash_count, inp.call.flags, inp.call.skips, inp.call.decommitments).root

\* C16: whenever the root recomputed from the arguments of the call differs
\* from the stored root, use, update and use_and_update revert, the stored
\* root stays what it was and no Data_Used event is recorded; verify never
\* changes the stored root.
C16_ErrorAtomicity ==
  /\ (op \in {"use", "update", "use_and_update"} /\ recomputedOfCall # deployedRoot)
       => (out.err /\ root = deployedRoot /\ out.events = <<>>)
  /\ op = "verify" => root = deployedRoot

\* an update with a foreign element, and one with a wrong element count,
\* reverted
C16_Witness ==
  /\ op = "update"
  /\ inp.call.tamper = "element"
  /\ inp.call.hash_count = highestBit(inp.call.flags)
  /\ recomputedOfCall # Absent
  /\ recomputedOfCall # deployedRoot
  /\ out.err
  /\ root = deployedRoot

\* a use_and_update of a valid proof went through: root written, event logged
C16_AcceptedWitness ==
  /\ op = "use_and_update"
  /\ validCall
  /\ ~out.err
  /\ root # deployedRoot
  /\ Len(out.events) = 1

\* C17: verify, called on the stored root of a sorted-hash tree with N, the
\* elements at I highest index first, and the compact proof for I with its
\* number of hash steps, returns true.
C17_VerifyAcceptsValidProof ==
  (op = "verify" /\ validCall) => (~out.err /\ out.valid)

\* what the code does instead: with a number of hash steps other than the
\* length of a bytes32, verify returns false, whatever the proof
C17_VerifyRefusesOtherCounts ==
  (op = "verify" /\ inp.call.hash_count # bytes32Length) => (~out.err /\ ~out.valid)

C17_RefusedWitness ==
  /\ op = "verify"
  /\ validCall
  /\ recomputedOfCall = deployedRoot
  /\ ~out.valid

\* ------------------------------------------------- append and size proofs
\* getRoot of append-proofs.ts with its compact form: a compact proof
\* carries the element count in its first word and the decommitments after
AppendProofs_getRootOf(compactProof, elemCount, decommitments, sorted) ==
  LET count == IF Len(compactProof) > 0 THEN from32ByteBuffer(compactProof[1]) ELSE elemCount
      decs == IF Len(compactProof) > 0 THEN Slice(compactProof, 1) ELSE decommitments
  IN  [root |-> AppendProofs_getRoot(count, decs, sorted), elementCount |-> count]

\* generateAppendProof: the append proof of the tree, in either form
GenerateAppendProof ==
  /\ Idle
  /\ \E compact \in BOOLEAN :
     \E tree \in {treeOf(sortedHash, elements)} :
     \E proof \in {AppendProofs_generate(tree, Len(elements), compact)} :
       /\ op' = "generateAppendProof"
       /\ inp' = [NoInput EXCEPT !.compact = compact]
       /\ out' = [NoOutput EXCEPT
                    !.proof = [NoProof EXCEPT !.compactProof = proof.compactProof,
                                              !.elementCount = proof.elementCount,
                                              !.decommitments = proof.decommitments]]
       /\ UNCHANGED <<sortedHash, elements, root, elementCount, steps>>

\* verifyAppendProof: the root of the proof is H(N, getRoot of the proof)
VerifyAppendProof ==
  /\ Idle
  /\ Len(elements) >= 1
  /\ \E compact \in BOOLEAN :
     \E tree \in {treeOf(sortedHash, elements)} :
     \E proof \in {AppendProofs_generate(tree, Len(elements), compact)} :
     \E res \in {AppendProofs_getRootOf(proof.compactProof, proof.elementCount, proof.decommitments, sortedHash)} :
       /\ op' = "verifyAppendProof"
       /\ inp' = [NoInput EXCEPT !.compact = compact]
       /\ out' = [NoOutput EXCEPT
                    !.root = res.root,
                    !.elementCount = res.elementCount,
                    !.valid = (computeRoot(res.elementCount, res.root) = root)]
       /\ UNCHANGED <<sortedHash, elements, root, elementCount, steps>>

\* verifySizeProof of a full size proof: the decommitments of the append
\* proof, folded as the append proof is
VerifySizeProof ==
  /\ Idle
  /\ Len(elements) >= 1
  /\ \E compact \in BOOLEAN :
     \E tree \in {treeOf(sortedHash, elements)} :
     \E proof \in {AppendProofs_generate(tree, Len(elements), compact)} :
     \E res \in {AppendProofs_getRootOf(proof.compactProof, proof.elementCount, proof.decommitments, sortedHash)} :
       /\ op' = "verifySizeProof"
       /\ inp' = [NoInput EXCEPT !.compact = compact]
       /\ out' = [NoOutput EXCEPT
                    !.root = res.root,
                    !.elementCount = res.elementCount,
                    !.valid = (computeRoot(res.elementCount, res.root) = root)]
       /\ UNCHANGED <<sortedHash, elements, root, elementCount, steps>>

NextAppendProof ==
  \/ GenerateAppendProof
  \/ VerifyAppendProof
  \/ VerifySizeProof

SpecAppendProof == Init /\ [][NextAppendProof]_vars

\* the positions of the set bits of n, and their number
setBits(n) == {k \in 0..30 : (n \div pow2(k)) % 2 = 1}
popcount(n) == Cardinality(setBits(n))

\* the set bits of n from the highest down
RECURSIVE descendingBits(_)
descendingBits(bitSetOfN) ==
  IF bitSetOfN = {} THEN <<>>
  ELSE LET top == CHOOSE k \in bitSetOfN : \A m \in bitSetOfN : m <= k
       IN  <<top>> \o descendingBits(bitSetOfN \ {top})

\* the index of the first leaf under the j-th perfect subtree of the frontier
RECURSIVE frontierOffset(_, _)
frontierOffset(bits, j) ==
  IF j <= 1 THEN 0 ELSE frontierOffset(bits, j - 1) + pow2(bits[j - 1])

\* the roots of the perfect subtrees an N-leaf sequence splits into, the
\* largest (left-most, top-most) first
frontierRoots(sorted, elems) ==
  LET bits == descendingBits(setBits(Len(elems)))
  IN  [j \in 1..Len(bits) |->
         treeOf(sorted, SubSeq(elems, frontierOffset(bits, j) + 1, frontierOffset(bits, j) + pow2(bits[j])))[1]]

\* the decommitments of a generated append proof, whatever its form
decommitmentsOfOutput ==
  IF inp.compact THEN Tail(out.proof.compactProof) ELSE out.proof.decommitments

\* C18: for every N >= 0 the append proof of the N-leaf tree has exactly
\* popcount(N) decommitments (none for N = 0, the single tree[1] for a power
\* of two), each the root of a perfect subtree on the left of the frontier,
\* top-most first; the compact form is the word of N followed by them.
C18_AppendProofGeneration ==
  op = "generateAppendProof" =>
    LET N == Len(elements)
        decs == decommitmentsOfOutput
    IN  /\ Len(decs) = popcount(N)
        /\ decs = frontierRoots(sortedHash, elements)
        /\ N = 0 => decs = <<>>
        /\ (N > 0 /\ popcount(N) = 1) => decs = <<treeOf(sortedHash, elements)[1]>>
        /\ inp.compact =>
             /\ out.proof.compactProof = <<to32ByteBuffer(N)>> \o decs
             /\ out.proof.decommitments = <<>>
        /\ ~inp.compact =>
             /\ out.proof.compactProof = <<>>
             /\ out.proof.elementCount = N

\* five leafs: the root of the first four, then the fifth leaf
C18_Witness ==
  /\ op = "generateAppendProof"
  /\ Len(elements) = 5
  /\ inp.compact
  /\ Len(out.proof.compactProof) = 3
  /\ out.proof.compactProof[3] = hashLeaf(elements[5])

C18_PowerOfTwoWitness ==
  /\ op = "generateAppendProof"
  /\ Len(elements) = 4
  /\ ~inp.compact
  /\ out.proof.decommitments = <<treeOf(sortedHash, elements)[1]>>

C19_SizeWitness ==
  /\ op = "verifySizeProof"
  /\ Len(elements) = 3
  /\ out.valid

\* ------------------------------------------------ proofs without stop bit
\* the word with its highest set bit cleared
withoutHighestBit(word) ==
  bigIntTo32ByteBuffer(trimBigInt(SubSeq(Tail(word), 1, Len(word) - 2)))

\* the compact proof with the stop bits of its flags and skips words cleared
withoutStopBits(compactProof) ==
  [compactProof EXCEPT ![2] = withoutHighestBit(@), ![3] = withoutHighestBit(@)]

\* getRoot on a compact proof whose stop bits are missing
MalformedGetRoot ==
  /\ Idle
  /\ \E tree \in {treeOf(sortedHash, elements)} :
     \E indices \in IndexLists(Len(elements)) :
       \E proof \in {generate(tree, Len(elements), indices, sortedHash, TRUE)} :
       \E compactProof \in {withoutStopBits(proof.compactProof)} :
       \E leafs \in {leafsOf(elementsAt(elements, indices))} :
       \E res \in {getRoot(leafs, compactProof, 0, <<>>, <<>>, <<>>, <<>>, sortedHash)} :
           /\ op' = "malformedGetRoot"
           /\ inp' = [NoInput EXCEPT !.indices = indices, !.compact = TRUE,
                                     !.proof = [NoProof EXCEPT !.compactProof = compactProof]]
           /\ out' = [NoOutput EXCEPT !.root = res.root, !.err = res.err]
           /\ UNCHANGED <<sortedHash, elements, root, elementCount, steps>>

\* getNewRoot on a compact proof whose stop bits are missing
MalformedGetNewRoot ==
  /\ Idle
  /\ \E tree \in {treeOf(sortedHash, elements)} :
     \E indices \in IndexLists(Len(elements)) :
     \E updateElements \in UpdateLists(Len(indices)) :
       \E proof \in {generate(tree, Len(elements), indices, sortedHash, TRUE)} :
       \E compactProof \in {withoutStopBits(proof.compactProof)} :
       \E leafs \in {leafsOf(elementsAt(elements, indices))} :
       \E updateLeafs \in {leafsOf(updateElements)} :
       \E res \in {getNewRoot(leafs, updateLeafs, compactProof, 0, <<>>, <<>>, <<>>, <<>>, sortedHash)} :
           /\ op' = "malformedGetNewRoot"
           /\ inp' = [NoInput EXCEPT !.indices = indices, !.compact = TRUE,
                                     !.updateElements = updateElements,
                                     !.proof = [NoProof EXCEPT !.compactProof = compactProof]]
           /\ out' = [NoOutput EXCEPT !.root = res.root, !.newRoot = res.newRoot,
                                      !.err = res.err]
           /\ UNCHANGED <<sortedHash, elements, root, elementCount, steps>>

\* getIndices on a compact proof whose stop bits are missing
MalformedGetIndices ==
  /\ Idle
  /\ \E tree \in {treeOf(sortedHash, elements)} :
     \E indices \in IndexLists(Len(elements)) :
       \E proof \in {generate(tree, Len(elements), indices, sortedHash, TRUE)} :
       \E compactProof \in {withoutStopBits(proof.compactProof)} :
       \E res \in {getIndices(Len(indices), compactProof, <<>>, <<>>, <<>>)} :
           /\ op' = "malformedGetIndices"
           /\ inp' = [NoInput EXCEPT !.indices = indices, !.compact = TRUE,
                                     !.proof = [NoProof EXCEPT !.compactProof = compactProof]]
           /\ out' = [NoOutput EXCEPT !.indices = res.indices, !.err = res.err,
                                      !.diverges = res.diverges]
           /\ UNCHANGED <<sortedHash, elements, root, elementCount, steps>>

NextMalformed ==
  \/ MalformedGetRoot
  \/ MalformedGetNewRoot
  \/ MalformedGetIndices

SpecMalformed == Init /\ [][NextMalformed]_vars

malformedOps == {"malformedGetRoot", "malformedGetNewRoot", "malformedGetIndices"}

\* the flags and skips words of the proof share no set bit
sharesNoBit(compactProof) ==
  \A i \in 0..255 : ~(wordBit(compactProof[2], i) = 1 /\ wordBit(compactProof[3], i) = 1)

\* every proof the malformed operations are applied to lacks its stop bit
MalformedProofsShareNoBit ==
  op \in malformedOps => sharesNoBit(inp.proof.compactProof)

\* C20: on a compact proof whose flags and skips words share no set bit,
\* getRoot, getNewRoot and getIndices terminate with an error; none loops
\* forever and none returns a root or an index list.
C20_MalformedProofRejected ==
  op \in malformedOps =>
    /\ ~out.diverges
    /\ out.err
    /\ out.root = Absent
    /\ out.newRoot = Absent
    /\ out.indices = <<>>

\* C20 for getRoot and getNewRoot: both end with an error and no root
C20_MalformedRootsRejected ==
  op \in {"malformedGetRoot", "malformedGetNewRoot"} =>
    /\ out.err
    /\ out.root = Absent
    /\ out.newRoot = Absent

\* getIndices on a proof without stop bit runs on past the last set bit of
\* both words and never ends
C20_DivergesWitness ==
  /\ op = "malformedGetIndices"
  /\ ~sortedHash
  /\ Len(elements) = 2
  /\ inp.indices = <<0, 1>>
  /\ out.diverges
  /\ ~out.err

\* ------------------------------------------- the automaton, step by step
\* getRootBooleans and getNewRootBooleans run one loop iteration per
\* transition.  steps is the loop counter i; out.automaton holds the local
\* variables of the function (st), the buffer slots holding a hash not yet
\* consumed before and after the iteration (liveBefore, live), and the slots
\* the iteration read and wrote.

\* the buffer slots an iteration reads, by the branch it takes
slotsRead(st, i, flags, skips) ==
  LET leafCount == Len(st.hashes)
  IN  IF Bit(skips, i) = 1 THEN {st.readIndex}
      ELSE IF Bit(flags, i) = 1 THEN {st.readIndex, (st.readIndex + 1) % leafCount}
      ELSE {st.readIndex % leafCount}

\* the automaton before its first iteration: every slot holds a leaf
automatonStart(st) ==
  [st |-> st, liveBefore |-> {}, reads |-> {}, write |-> -1,
   live |-> 0..(Len(st.hashes) - 1)]

\* the automaton after the iteration i that leads from st to next
automatonAfter(a, i, next, flags, skips) ==
  [st |-> next,
   liveBefore |-> a.live,
   reads |-> slotsRead(a.st, i, flags, skips),
   write |-> a.st.writeIndex,
   live |-> (a.live \ slotsRead(a.st, i, flags, skips)) \cup {a.st.writeIndex}]

\* getRoot called on the boolean-array proof generated for indices
StartGetRoot ==
  /\ Idle
  /\ \E tree \in {treeOf(sortedHash, elements)} :
     \E indices \in IndexLists(Len(elements)) :
       \E proof \in {generateBooleans(tree, Len(elements), indices, sortedHash)} :
       \E leafs \in {leafsOf(elementsAt(elements, indices))} :
           /\ op' = "getRoot"
           /\ inp' = [NoInput EXCEPT !.indices = indices, !.proof = returnedProof(proof)]
           /\ out' = [NoOutput EXCEPT
                        !.automaton = automatonStart(
                           [hashes |-> Reverse(leafs), readIndex |-> 0,
                            writeIndex |-> 0, decommitmentIndex |-> 0])]
           /\ steps' = 0
           /\ UNCHANGED <<sortedHash, elements, root, elementCount>>

\* getNewRoot called on the boolean-array proof generated for indices
StartGetNewRoot ==
  /\ Idle
  /\ \E tree \in {treeOf(sortedHash, elements)} :
     \E indices \in IndexLists(Len(elements)) :
     \E updateElements \in UpdateLists(Len(indices)) :
       \E proof \in {generateBooleans(tree, Len(elements), indices, sortedHash)} :
       \E leafs \in {leafsOf(elementsAt(elements, indices))} :
       \E updateLeafs \in {leafsOf(updateElements)} :
           /\ op' = "getNewRoot"
           /\ inp' = [NoInput EXCEPT !.indices = indices, !.proof = returnedProof(proof),
                                     !.updateElements = updateElements]
           /\ out' = [NoOutput EXCEPT
                        !.automaton = automatonStart(
                           [hashes |-> Reverse(leafs), updateHashes |-> Reverse(updateLeafs),
                            readIndex |-> 0, writeIndex |-> 0, decommitmentIndex |-> 0])]
           /\ steps' = 0
           /\ UNCHANGED <<sortedHash, elements, root, elementCount>>

\* one iteration of the for loop of getRootBooleans
StepGetRoot ==
  /\ op = "getRoot"
  /\ steps < Len(inp.proof.flags)
  /\ \E next \in {getRootBooleansStep(out.automaton.st, steps, inp.proof.flags, inp.proof.skips, inp.proof.orders, inp.proof.decommitments, sortedHash)} :
       /\ out' = [out EXCEPT !.automaton = automatonAfter(@, steps, next, inp.proof.flags, inp.proof.skips)]
       /\ steps' = steps + 1
       /\ UNCHANGED <<sortedHash, elements, root, elementCount, op, inp>>

\* one iteration of the for loop of getNewRootBooleans
StepGetNewRoot ==
  /\ op = "getNewRoot"
  /\ steps < Len(inp.proof.flags)
  /\ \E next \in {getNewRootBooleansStep(out.automaton.st, steps, inp.proof.flags, inp.proof.skips, inp.proof.orders, inp.proof.decommitments, sortedHash)} :
       /\ out' = [out EXCEPT !.automaton = automatonAfter(@, steps, next, inp.proof.flags, inp.proof.skips)]
       /\ steps' = steps + 1
       /\ UNCHANGED <<sortedHash, elements, root, elementCount, op, inp>>

\* the number of the step whose bit bitCheck is
bitPosition(bitCheck) == CHOOSE k \in 0..30 : pow2(k) = bitCheck

\* the compact verifiers and the compact inference run to their return on
\* the compact proof generated for indices; halted records the proof's
\* boolean streams and the value of bitCheck each loop returned at
HaltCompact ==
  /\ Idle
  /\ \E tree \in {treeOf(sortedHash, elements)} :
     \E indices \in IndexLists(Len(elements)) :
     \E updateElements \in UpdateLists(Len(indices)) :
       \E booleans \in {generateBooleans(tree, Len(elements), indices, sortedHash)} :
       \E proof \in {bitsOfBooleans(booleans)} :
       \E leafs \in {leafsOf(elementsAt(elements, indices))} :
       \E updateLeafs \in {leafsOf(updateElements)} :
       \E flags \in {bufferToBigInt(At(proof.compactProof, 1))} :
       \E skips \in {bufferToBigInt(At(proof.compactProof, 2))} :
       \E orders \in {ordersOfCompactProof(proof.compactProof, sortedHash)} :
       \E decommitments \in {Slice(proof.compactProof, IF sortedHash THEN 3 ELSE 4)} :
       \E rootEnd \in {getRootBitsLoop(
              [hashes |-> Reverse(leafs), readIndex |-> 0, writeIndex |-> 0,
               decommitmentIndex |-> 0, bitCheck |-> 1, done |-> FALSE, err |-> FALSE],
              flags, skips, orders, decommitments, sortedHash)} :
       \E newRootEnd \in {getNewRootBitsLoop(
              [hashes |-> Reverse(leafs), updateHashes |-> Reverse(updateLeafs),
               readIndex |-> 0, writeIndex |-> 0, decommitmentIndex |-> 0,
               bitCheck |-> 1, done |-> FALSE, err |-> FALSE],
              flags, skips, orders, decommitments, sortedHash)} :
       \E inferred \in {getIndicesWithBits(Len(indices), proof.compactProof)} :
           /\ ~proof.err
           /\ op' = "haltCompact"
           /\ inp' = [NoInput EXCEPT !.indices = indices, !.compact = TRUE,
                                     !.updateElements = updateElements,
                                     !.proof = returnedProof(proof)]
           /\ out' = [NoOutput EXCEPT
                        !.halted = [flags |-> booleans.flags, skips |-> booleans.skips,
                                    flagsWord |-> flags, skipsWord |-> skips,
                                    getRootBits |-> [err |-> rootEnd.err, bitCheck |-> rootEnd.bitCheck],
                                    getNewRootBits |-> [err |-> newRootEnd.err, bitCheck |-> newRootEnd.bitCheck],
                                    getIndicesWithBits |-> [err |-> inferred.err \/ inferred.diverges,
                                                            bitCheck |-> inferred.bitCheck]]]
           /\ UNCHANGED <<sortedHash, elements, root, elementCount, steps>>

NextAutomaton ==
  \/ StartGetRoot
  \/ StartGetNewRoot
  \/ StepGetRoot
  \/ StepGetNewRoot
  \/ HaltCompact

SpecAutomaton == Init /\ [][NextAutomaton]_vars

running == op \in {"getRoot", "getNewRoot"}
finished == running /\ steps = Len(inp.proof.flags)

\* the steps below i that read a decommitment: neither flag nor skip set
decommitmentSteps(flags, skips, i) ==
  {s \in 1..i : flags[s] = 0 /\ skips[s] = 0}

\* C21: a proof generated for a strictly ascending index list has as many
\* decommitments as steps with flag 0 and skip 0; the verifier's
\* decommitment cursor is, after every iteration, the number of such steps
\* made, so each decommitment is consumed once, in order, and the cursor
\* ends at the length of the list.
C21_DecommitmentCount ==
  running =>
    /\ Len(inp.proof.decommitments) = Cardinality(decommitmentSteps(inp.proof.flags, inp.proof.skips, Len(inp.proof.flags)))
    /\ out.automaton.st.decommitmentIndex = Cardinality(decommitmentSteps(inp.proof.flags, inp.proof.skips, steps))
    /\ out.automaton.st.decommitmentIndex <= Len(inp.proof.decommitments)
    /\ finished => out.automaton.st.decommitmentIndex = Len(inp.proof.decommitments)

\* a finished run that consumed two decommitments
C21_Witness ==
  /\ finished
  /\ op = "getRoot"
  /\ Len(elements) = 6
  /\ inp.indices = <<1, 4>>
  /\ Len(inp.proof.decommitments) >= 2
  /\ out.automaton.st.decommitmentIndex = Len(inp.proof.decommitments)

\* C27: while getRoot or getNewRoot processes a proof generated for m >= 1
\* strictly ascending indices, readIndex and writeIndex stay in [0, m),
\* every slot read holds a hash not yet consumed, no write lands on an
\* unconsumed hash, and after the last step exactly one unconsumed hash
\* remains, at index (writeIndex == 0 ? m : writeIndex) - 1.
C27_CircularBufferSafety ==
  running =>
    LET a == out.automaton
        m == Len(inp.indices)
    IN  /\ a.st.readIndex \in 0..(m - 1)
        /\ a.st.writeIndex \in 0..(m - 1)
        /\ Len(a.st.hashes) = m
        /\ a.reads \subseteq a.liveBefore
        /\ a.write \notin (a.liveBefore \ a.reads)
        /\ \A k \in a.live : At(a.st.hashes, k) \notin {Absent, Failure}
        /\ finished => a.live = {(IF a.st.writeIndex = 0 THEN m ELSE a.st.writeIndex) - 1}

\* a finished run over three leafs whose buffer wrapped around
C27_Witness ==
  /\ finished
  /\ op = "getNewRoot"
  /\ Len(inp.indices) = 3
  /\ Len(inp.proof.flags) >= 4
  /\ out.automaton.live = {(IF out.automaton.st.writeIndex = 0 THEN 3 ELSE out.automaton.st.writeIndex) - 1}

\* the lowest bit position at which both words have their bit set
lowestCommonBit(flagsWord, skipsWord) ==
  CHOOSE k \in 0..30 :
    /\ bitSet(flagsWord, pow2(k)) /\ bitSet(skipsWord, pow2(k))
    /\ \A j \in 0..(k - 1) : ~(bitSet(flagsWord, pow2(j)) /\ bitSet(skipsWord, pow2(j)))

heldNodes(tree, indices, proof) ==
  LET leafCount == treeLength(tree) \div 2
      stepped == stepNodes(proof.relevant, leafCount - 1)
      decNodes == decommitmentNodes(tree, proof.known, leafCount - 1)
  IN  {leafCount + indices[j] : j \in DOMAIN indices}
        \cup {stepped[j] : j \in DOMAIN stepped}
        \cup {decNodes[j] : j \in DOMAIN decNodes}

\* the nodes named are the nodes whose hashes the two proofs carry
nodesAreProofs(tree, elemCount, proof) ==
  LET leafCount == treeLength(tree) \div 2
      decNodes == decommitmentNodes(tree, proof.known, leafCount - 1)
      frontier == appendNodes(leafCount + elemCount, <<>>)
  IN  /\ [k \in DOMAIN decNodes |-> Node(tree, decNodes[k])] = proof.decommitments
      /\ [k \in DOMAIN frontier |-> Node(tree, frontier[k])]
           = AppendProofs_generate(tree, elemCount, FALSE).decommitments

C23_BelowWitness ==
  /\ op = "updateAndAppend"
  /\ Len(elements) = 5
  /\ inp.indices = <<1, 3>>
  /\ out.err

\* ------------------------------------------------------ tampered proofs
\* getRoot applied to a generated boolean-array proof in which one leaf
\* image or one decommitment is replaced by another value, or one bit of
\* flags, skips or orders at a real step is flipped.
TamperKinds == {"leaf", "decommitment", "flags", "skips", "orders"}

\* the list a tamper of kind works on
tamperedList(kind, leafs, proof) ==
  CASE kind = "leaf" -> leafs
    [] kind = "decommitment" -> proof.decommitments
    [] kind = "flags" -> proof.flags
    [] kind = "skips" -> proof.skips
    [] kind = "orders" -> proof.orders

\* the values that can take the place of value: the other bit, or another
\* hash (a node of the tree or the leaf of an element of no tree)
replacements(kind, tree, value) ==
  IF kind \in {"flags", "skips", "orders"} THEN {1 - value}
  ELSE ({Node(tree, n) : n \in 1..(treeLength(tree) - 1)}
          \cup {hashLeaf(MaxN + MaxN + MaxN + 1)}) \ {value, Absent}

TamperedGetRoot ==
  /\ Idle
  /\ \E tree \in {treeOf(sortedHash, elements)} :
     \E indices \in IndexLists(Len(elements)) :
     \E kind \in TamperKinds :
       \E proof \in {generateBooleans(tree, Len(elements), indices, sortedHash)} :
       \E leafs \in {leafsOf(elementsAt(elements, indices))} :
       \E at \in DOMAIN tamperedList(kind, leafs, proof) :
       \E value \in replacements(kind, tree, tamperedList(kind, leafs, proof)[at]) :
       \E tampered \in {[tamperedList(kind, leafs, proof) EXCEPT ![at] = value]} :
       \E res \in {getRootBooleans(
                     IF kind = "leaf" THEN tampered ELSE leafs,
                     proof.elementCount,
                     IF kind = "flags" THEN tampered ELSE proof.flags,
                     IF kind = "skips" THEN tampered ELSE proof.skips,
                     IF kind = "orders" THEN tampered ELSE proof.orders,
                     IF kind = "decommitment" THEN tampered ELSE proof.decommitments,
                     sortedHash)} :
           /\ ~proof.err
           /\ op' = "tamperedGetRoot"
           /\ inp' = [NoInput EXCEPT !.indices = indices, !.proof = returnedProof(proof),
                                     !.tamper = [kind |-> kind, at |-> at]]
           /\ out' = [NoOutput EXCEPT !.root = res.root,
                                      !.elementCount = res.elementCount]
           /\ UNCHANGED <<sortedHash, elements, root, elementCount, steps>>

NextTamper == TamperedGetRoot

SpecTamper == Init /\ [][NextTamper]_vars

pairwiseDistinct(elems) ==
  \A i, j \in DOMAIN elems : i # j => elems[i] # elems[j]

\* the tamper did not go unnoticed: getRoot failed or returned another root
detected ==
  out.root # treeOf(sortedHash, elements)[1]

\* C24 as stated: under the ordered hash, every replacement of one leaf
\* image or one decommitment and every flip of one flags, skips or orders
\* bit of a real step makes getRoot return a value other than tree[1].
C24_EveryTamperDetected ==
  (op = "tamperedGetRoot" /\ ~sortedHash) => detected

\* C24: under the ordered hash, for a tree of pairwise distinct elements,
\* every replacement of one leaf image or one decommitment, every flip of
\* a skips bit, and every flip of a flags or orders bit of a step that is
\* not a skip step makes getRoot return a value other than tree[1].
C24_TamperDetected ==
  (/\ op = "tamperedGetRoot"
   /\ ~sortedHash
   /\ pairwiseDistinct(elements)
   /\ inp.tamper.kind \in {"flags", "orders"} => inp.proof.skips[inp.tamper.at] = 0)
    => detected

\* a flipped orders bit of a hashing step, detected
C24_Witness ==
  /\ op = "tamperedGetRoot"
  /\ ~sortedHash
  /\ elements = <<1, 2, 3, 4, 5>>
  /\ inp.indices = <<1, 4>>
  /\ inp.tamper.kind = "orders"
  /\ inp.proof.skips[inp.tamper.at] = 0
  /\ detected

\* ------------------------------------------- the append loops, step by step
\* appendMulti and getNewRootMulti run one loop iteration per transition, on
\* any append list and on decommitment lists right and wrong.  The local
\* variables are out.automaton.st; a hash of an undefined operand throws,
\* which ends the call with out.err.

\* the decommitments of the append proof, and lists too short and too long
DecommitmentLists(decommitments) ==
  {decommitments, <<>>, decommitments \o <<hashLeaf(MaxN + MaxN + MaxN + 1)>>}
    \cup (IF Len(decommitments) > 0
          THEN {SubSeq(decommitments, 1, Len(decommitments) - 1)} ELSE {})

\* the iteration threw: a hash it computed had an undefined operand
threw(st) ==
  \/ \E k \in DOMAIN st.appendHashes : st.appendHashes[k] = Failure
  \/ ("hash" \in DOMAIN st /\ st.hash = Failure)

StartAppendMulti ==
  /\ Idle
  /\ \E k \in 0..MaxAppend : \E appendElements \in AppendLists(k) :
       \E tree \in {treeOf(sortedHash, elements)} :
       \E proof \in {AppendProofs_generate(tree, Len(elements), FALSE)} :
       \E decommitments \in DecommitmentLists(proof.decommitments) :
           /\ op' = "appendMulti"
           /\ inp' = [NoInput EXCEPT !.appendElements = appendElements,
                        !.proof = [NoProof EXCEPT !.elementCount = Len(elements),
                                                  !.decommitments = decommitments]]
           /\ out' = [NoOutput EXCEPT !.automaton = [NoAutomaton EXCEPT !.st =
                        [decommitmentIndex |-> bitCount32(Len(elements)) - 1,
                         appendHashes |-> leafsOf(appendElements),
                         upperBound |-> Len(elements) + Len(appendElements) - 1,
                         writeIndex |-> 0,
                         readIndex |-> 0,
                         offset |-> Len(elements),
                         index |-> Len(elements)]]]
           /\ steps' = 0
           /\ UNCHANGED <<sortedHash, elements, root, elementCount>>

StartGetNewRootMulti ==
  /\ Idle
  /\ \E k \in 0..MaxAppend : \E appendElements \in AppendLists(k) :
       \E tree \in {treeOf(sortedHash, elements)} :
       \E proof \in {AppendProofs_generate(tree, Len(elements), FALSE)} :
       \E decommitments \in DecommitmentLists(proof.decommitments) :
           /\ op' = "getNewRootMulti"
           /\ inp' = [NoInput EXCEPT !.appendElements = appendElements,
                        !.proof = [NoProof EXCEPT !.elementCount = Len(elements),
                                                  !.decommitments = decommitments]]
           /\ out' = [NoOutput EXCEPT !.automaton = [NoAutomaton EXCEPT !.st =
                        getNewRootMultiStart(leafsOf(appendElements), Len(elements),
                                             decommitments)]]
           /\ steps' = 0
           /\ UNCHANGED <<sortedHash, elements, root, elementCount>>

StepAppendMulti ==
  /\ op = "appendMulti"
  /\ ~out.err
  /\ out.automaton.st.upperBound > 0
  /\ \E next \in {appendMultiStep(out.automaton.st, inp.proof.decommitments, sortedHash)} :
       /\ out' = [out EXCEPT !.automaton.st = next, !.err = threw(next)]
       /\ steps' = steps + 1
       /\ UNCHANGED <<sortedHash, elements, root, elementCount, op, inp>>

StepGetNewRootMulti ==
  /\ op = "getNewRootMulti"
  /\ ~out.err
  /\ out.automaton.st.upperBound > 0
  /\ \E next \in {getNewRootMultiStep(out.automaton.st, inp.proof.decommitments, sortedHash)} :
       /\ out' = [out EXCEPT !.automaton.st = next, !.err = threw(next)]
       /\ steps' = steps + 1
       /\ UNCHANGED <<sortedHash, elements, root, elementCount, op, inp>>

\* the decommitment lists of the length of decommitments: the list itself,
\* the list reversed, and the list with its first entry replaced
SameLengthLists(decommitments) ==
  {decommitments, Reverse(decommitments)}
    \cup (IF Len(decommitments) > 0
          THEN {[decommitments EXCEPT ![1] = hashLeaf(MaxN + MaxN + MaxN + 1)]}
          ELSE {})

\* getNewRoot of append-proofs.ts called with one leaf or with a leaf list,
\* in either form, on a decommitment list of the length of the append proof
AppendGetNewRoot ==
  /\ Idle
  /\ \E k \in 1..MaxAppend : \E appendElements \in AppendLists(k) :
     \E single \in {s \in BOOLEAN : s => k = 1} : \E compact \in BOOLEAN :
       \E tree \in {treeOf(sortedHash, elements)} :
       \E generated \in {AppendProofs_generate(tree, Len(elements), FALSE)} :
       \E decommitments \in SameLengthLists(generated.decommitments) :
       \E compactProof \in {IF compact
                             THEN <<to32ByteBuffer(Len(elements))>> \o decommitments
                             ELSE <<>>} :
       \E res \in {AppendProofs_getNewRoot(leafsOf(appendElements), single, compactProof,
                      IF compact THEN 0 ELSE Len(elements),
                      IF compact THEN <<>> ELSE decommitments, sortedHash)} :
           /\ op' = (IF single THEN "getNewRoot(single)" ELSE "getNewRoot(multi)")
           /\ inp' = [NoInput EXCEPT !.appendElements = appendElements,
                        !.compact = compact,
                        !.proof = [NoProof EXCEPT !.elementCount = Len(elements),
                                                  !.decommitments = decommitments]]
           /\ out' = [NoOutput EXCEPT !.root = res.root, !.newRoot = res.newRoot,
                                      !.elementCount = res.elementCount]
           /\ UNCHANGED <<sortedHash, elements, root, elementCount, steps>>

NextAppendLoop ==
  \/ StartAppendMulti
  \/ StartGetNewRootMulti
  \/ StepAppendMulti
  \/ StepGetNewRootMulti
  \/ AppendGetNewRoot

SpecAppendLoop == Init /\ [][NextAppendLoop]_vars

\* the loops are scheduled until they return or throw
SpecAppendLoopFair == SpecAppendLoop /\ WF_vars(NextAppendLoop)

looping == op \in {"appendMulti", "getNewRootMulti"}
returned == looping /\ (out.err \/ out.automaton.st.upperBound <= 0)

\* the iteration advanced index within the level
advanced ==
  /\ out.automaton.st.upperBound' = out.automaton.st.upperBound
  /\ out.automaton.st.index' > out.automaton.st.index

\* the iteration closed the level: upperBound is halved
closed ==
  /\ out.automaton.st.upperBound' = out.automaton.st.upperBound \div 2
  /\ out.automaton.st.upperBound' < out.automaton.st.upperBound

\* C25: for every element count, append list and decommitment list, every
\* iteration of the while loop of appendMulti and of getNewRootMulti either
\* advances index or closes the level by halving upperBound, and the loop
\* ends: upperBound reaches 0 (or a hash of an undefined operand throws).
C25_MultiAppendTerminates ==
  /\ [][(StepAppendMulti \/ StepGetNewRootMulti) => (advanced \/ closed)]_vars
  /\ (looping ~> returned)

\* getNewRootMulti returned after several iterations, without throwing
C25_Witness ==
  /\ op = "getNewRootMulti"
  /\ Len(elements) = 5
  /\ Len(inp.appendElements) = 3
  /\ steps >= 4
  /\ ~out.err
  /\ out.automaton.st.upperBound = 0

\* C26: for N >= 1, a decommitment list of length popcount(N) and a
\* non-empty append input, getNewRoot of append-proofs.ts returns the
\* newRoot appendSingle (one leaf) or appendMulti (a leaf list) returns on
\* the same inputs, and the root getRoot returns on the same N and
\* decommitments.
C26_TwoOutputAgreesWithOneOutput ==
  (op \in {"getNewRoot(single)", "getNewRoot(multi)"} /\ Len(elements) >= 1) =>
    LET N == Len(elements)
        decommitments == inp.proof.decommitments
        appendLeafs == leafsOf(inp.appendElements)
    IN  /\ Len(decommitments) = bitCount32(N)
        /\ out.newRoot = (IF op = "getNewRoot(single)"
                          THEN appendSingle(appendLeafs[1], N, decommitments, sortedHash)
                          ELSE appendMulti(appendLeafs, N, decommitments, sortedHash))
        /\ out.root = AppendProofs_getRoot(N, decommitments, sortedHash)
        /\ out.elementCount = N

\* three leafs appended to five elements with a compact proof
C26_Witness ==
  /\ op = "getNewRoot(multi)"
  /\ Len(elements) = 5
  /\ Len(inp.appendElements) = 3
  /\ inp.compact
  /\ out.root = treeOf(sortedHash, elements)[1]
  /\ out.newRoot = treeOf(sortedHash, elements \o inp.appendElements)[1]

\* one leaf appended to six elements
C26_SingleWitness ==
  /\ op = "getNewRoot(single)"
  /\ Len(elements) = 6
  /\ out.root = treeOf(sortedHash, elements)[1]
  /\ out.newRoot = treeOf(sortedHash, elements \o inp.appendElements)[1]

\* ------------------------------------------------- getRoot beside getNewRoot
\* getNewRoot called on proofs generated and not generated, with update
\* leafs that differ from the leafs and with the leafs themselves.

\* the most leafs given with streams that no proof generation returned
MaxStreamLeafs == 2
\* the longest streams that no proof generation returned
MaxStreamLen == 2

\* the replacement lists for the elements at indices, and those elements
LockstepUpdates(elems, indices) ==
  UpdateLists(Len(indices)) \cup {elementsAt(elems, indices)}

LockstepGenerated ==
  /\ Idle
  /\ \E tree \in {treeOf(sortedHash, elements)} :
     \E indices \in IndexLists(Len(elements)) : \E compact \in BOOLEAN :
     \E stripped \in {s \in BOOLEAN : s => compact} :
     \E updateElements \in LockstepUpdates(elements, indices) :
       \E generated \in {generate(tree, Len(elements), indices, sortedHash, compact)} :
       \E proof \in {IF stripped
                     THEN [generated EXCEPT !.compactProof = withoutStopBits(@)]
                     ELSE generated} :
       \E res \in {getNewRoot(leafsOf(elementsAt(elements, indices)),
                     leafsOf(updateElements), proof.compactProof, proof.elementCount,
                     proof.flags, proof.skips, proof.orders, proof.decommitments,
                     sortedHash)} :
           /\ ~generated.err
           /\ op' = "getNewRoot"
           /\ inp' = [NoInput EXCEPT !.indices = indices, !.compact = compact,
                                     !.updateElements = updateElements,
                                     !.proof = returnedProof(proof)]
           /\ out' = [NoOutput EXCEPT !.root = res.root, !.newRoot = res.newRoot,
                                      !.err = res.err]
           /\ UNCHANGED <<sortedHash, elements, root, elementCount, steps>>

LockstepArbitrary ==
  /\ Idle
  /\ Len(elements) \in 1..MaxStreamLeafs
  /\ \E indices \in {[j \in 1..Len(elements) |-> j - 1]} :
     \E hashCount \in 0..MaxStreamLen : \E decommitmentCount \in 0..MaxStreamLen :
     \E flags \in [1..hashCount -> {0, 1}] : \E skips \in [1..hashCount -> {0, 1}] :
     \E orders \in [1..hashCount -> {0, 1}] :
     \E updateElements \in LockstepUpdates(elements, indices) :
       \E decommitments \in {[k \in 1..decommitmentCount |-> hashLeaf(MaxN + MaxN + MaxN + k)]} :
       \E res \in {getNewRoot(leafsOf(elements), leafsOf(updateElements), <<>>,
                     Len(elements), flags, skips, orders, decommitments, sortedHash)} :
           /\ op' = "getNewRoot"
           /\ inp' = [NoInput EXCEPT !.indices = indices,
                        !.updateElements = updateElements,
                        !.proof = [NoProof EXCEPT !.elementCount = Len(elements),
                                     !.flags = flags, !.skips = skips,
                                     !.orders = orders,
                                     !.decommitments = decommitments]]
           /\ out' = [NoOutput EXCEPT !.root = res.root, !.newRoot = res.newRoot,
                                      !.err = res.err]
           /\ UNCHANGED <<sortedHash, elements, root, elementCount, steps>>

NextLockstep ==
  \/ LockstepGenerated
  \/ LockstepArbitrary

SpecLockstep == Init /\ [][NextLockstep]_vars

\* getRoot on the leafs and the proof getNewRoot was called with
getRootOfInput ==
  getRoot(leafsOf(elementsAt(elements, inp.indices)), inp.proof.compactProof,
          inp.proof.elementCount, inp.proof.flags, inp.proof.skips,
          inp.proof.orders, inp.proof.decommitments, sortedHash)

C28_SameLeafsWitness ==
  /\ op = "getNewRoot"
  /\ inp.compact
  /\ Len(inp.indices) = 2
  /\ inp.updateElements = elementsAt(elements, inp.indices)
  /\ out.newRoot = treeOf(sortedHash, elements)[1]

\* verify called with the arguments of the call on the root stored before it
verifyOfCall ==
  verify(deployedRoot, inp.call.element_count, inp.call.elements, inp.call.hash_count, inp.call.flags, inp.call.skips, inp.call.decommitments)

\* verify returned false (it did not revert and did not return true)
verifyReturnsFalse == ~verifyOfCall.reverted /\ ~verifyOfCall.valid

\* C29: update reverts exactly when verify, called with the same arguments
\* on the same stored root, returns false, and use reverts exactly when
\* verify returns false.
C29_AcceptanceAgreement ==
  op \in {"update", "use"} => (out.err <=> ~verifyOfCall.valid)

\* C29 for use alone: use reverts exactly when verify does not return true
C29_UseAgreesWithVerify ==
  op = "use" => (out.err <=> ~verifyOfCall.valid)

\* what the code does: update accepts a valid call that verify refuses
C29_UpdateAcceptsWhatVerifyRefuses ==
  /\ op = "update"
  /\ validCall
  /\ ~out.err
  /\ root # deployedRoot
  /\ verifyReturnsFalse

\* C30: getIndices on a proof generated with the sorted hash, which carries
\* no orders stream, fails with an error in both forms and returns no
\* index list.
C30_SortedInferenceRefused ==
  (op = "inferIndices" /\ sortedHash) => (out.err /\ out.indices = <<>>)

\* C30 for the boolean-array form alone: empty orders are refused
C30_EmptyOrdersRefused ==
  (op = "inferIndices" /\ sortedHash /\ ~inp.compact) => (out.err /\ out.indices = <<>>)

\* what the code does in compact form: the word after skips, a
\* decommitment, is read as the orders word and an index list is returned
C30_IndicesFromDecommitment ==
  /\ op = "inferIndices"
  /\ sortedHash
  /\ inp.compact
  /\ Len(elements) = 3
  /\ inp.indices = <<2>>
  /\ ~out.err
  /\ Len(out.indices) = 1

====
